---- MODULE Spec2Model ----
(***************************************************************************)
(* CareerFlow estimation engine (src-tauri/src/calculations.rs), its store  *)
(* (src-tauri/src/database.rs) and its commands (src-tauri/src/main.rs).    *)
(*                                                                         *)
(* f64 values are modelled as exact rationals [n, d] in lowest terms;      *)
(* NaiveDate values as [year, month, day]; String values that the code     *)
(* searches (the profile industry) as sequences of one-character strings;  *)
(* Option<T> as [some |-> FALSE] or [some |-> TRUE, value |-> v]; a table   *)
(* of the store as the set of its rows [id, data].                         *)
(***************************************************************************)
EXTENDS Integers, Sequences, FiniteSets, TLC

VARIABLES positions, profile, income, industry, report, store, lock, calls, backup

vars == <<positions, profile, income, industry, report, store, lock, calls, backup>>

(***************************************************************************)
(* Option<T>                                                               *)
(***************************************************************************)
None == [some |-> FALSE]

Some(v) == [some |-> TRUE, value |-> v]

(***************************************************************************)
(* f64 as exact rationals                                                  *)
(***************************************************************************)
Abs(x) == IF x < 0 THEN -x ELSE x

RECURSIVE GCD(_, _)
GCD(a, b) == IF b = 0 THEN a ELSE GCD(b, a % b)

Rat(n, d) ==
    LET g == GCD(Abs(n), Abs(d))
        s == IF d < 0 THEN -1 ELSE 1
    IN  [n |-> s * (n \div g), d |-> s * (d \div g)]

Whole(k) == [n |-> k, d |-> 1]

RNeg(a) == [n |-> -a.n, d |-> a.d]

RAdd(a, b) ==
    LET g == GCD(a.d, b.d)
    IN  Rat(a.n * (b.d \div g) + b.n * (a.d \div g), (a.d \div g) * b.d)

RSub(a, b) == RAdd(a, RNeg(b))

RMul(a, b) ==
    LET g1 == GCD(Abs(a.n), b.d)
        g2 == GCD(Abs(b.n), a.d)
    IN  IF a.n = 0 \/ b.n = 0 THEN Whole(0)
        ELSE [n |-> (a.n \div g1) * (b.n \div g2), d |-> (a.d \div g2) * (b.d \div g1)]

RDiv(a, b) == RMul(a, Rat(b.d, b.n))

RSign(a) == IF a.n > 0 THEN 1 ELSE IF a.n < 0 THEN -1 ELSE 0

RLt(a, b) == RSign(RSub(a, b)) < 0

RLe(a, b) == RSign(RSub(a, b)) <= 0

RGt(a, b) == RLt(b, a)

(***************************************************************************)
(* chrono::NaiveDate                                                       *)
(***************************************************************************)
Date(y, m, d) == [year |-> y, month |-> m, day |-> d]

IsLeap(y) == (y % 4 = 0 /\ y % 100 # 0) \/ y % 400 = 0

DaysBeforeMonth(y, m) ==
    <<0, 31, 59, 90, 120, 151, 181, 212, 243, 273, 304, 334>>[m]
        + (IF m > 2 /\ IsLeap(y) THEN 1 ELSE 0)

\* NaiveDate::num_days_from_ce
DayNumber(dt) ==
    LET y == dt.year - 1
    IN  365 * y + (y \div 4) - (y \div 100) + (y \div 400)
            + DaysBeforeMonth(dt.year, dt.month) + dt.day

\* (end - start).num_days()
num_days(end, start) == DayNumber(end) - DayNumber(start)

\* NaiveDate::from_ymd_opt(2024, 12, 31).unwrap()
Cutoff == Date(2024, 12, 31)

\* 365.25
DaysPerYear == Rat(36525, 100)

(***************************************************************************)
(* String::to_lowercase and str::contains over ASCII text                  *)
(***************************************************************************)
UpperCase == <<"A", "B", "C", "D", "E", "F", "G", "H", "I", "J", "K", "L", "M",
               "N", "O", "P", "Q", "R", "S", "T", "U", "V", "W", "X", "Y", "Z">>

LowerCase == <<"a", "b", "c", "d", "e", "f", "g", "h", "i", "j", "k", "l", "m",
               "n", "o", "p", "q", "r", "s", "t", "u", "v", "w", "x", "y", "z">>

to_lowercase(s) ==
    [i \in 1..Len(s) |->
        IF \E k \in 1..26 : UpperCase[k] = s[i]
        THEN LowerCase[CHOOSE k \in 1..26 : UpperCase[k] = s[i]]
        ELSE s[i]]

contains(s, pat) ==
    \E i \in 0..(Len(s) - Len(pat)) :
        \A j \in 1..Len(pat) : s[i + j] = pat[j]

kw_mining == <<"m", "i", "n", "i", "n", "g">>

kw_construction == <<"c", "o", "n", "s", "t", "r", "u", "c", "t", "i", "o", "n">>

kw_engineering == <<"e", "n", "g", "i", "n", "e", "e", "r", "i", "n", "g">>

kw_it == <<"i", "t">>

kw_technology == <<"t", "e", "c", "h", "n", "o", "l", "o", "g", "y">>

kw_healthcare == <<"h", "e", "a", "l", "t", "h", "c", "a", "r", "e">>

kw_education == <<"e", "d", "u", "c", "a", "t", "i", "o", "n">>

kw_finance == <<"f", "i", "n", "a", "n", "c", "e">>

\* "Unknown".to_string()
UnknownText == <<"U", "n", "k", "n", "o", "w", "n">>

(***************************************************************************)
(* models.rs enumerations                                                  *)
(***************************************************************************)
SeniorityLevel ==
    {"Entry", "Junior", "Mid", "Senior", "Lead", "Manager", "Director", "Executive"}

EmploymentType == {"Permanent", "Contract", "Casual"}

OvertimeAppetite == {"None", "Minimal", "Moderate", "High", "Extreme"}

(***************************************************************************)
(* PositionExt::base_salary_estimate                                       *)
(***************************************************************************)
SeniorityAnchor(level) ==
    CASE level = "Entry"     -> Whole(60000)
      [] level = "Junior"    -> Whole(75000)
      [] level = "Mid"       -> Whole(95000)
      [] level = "Senior"    -> Whole(120000)
      [] level = "Lead"      -> Whole(140000)
      [] level = "Manager"   -> Whole(130000)
      [] level = "Director"  -> Whole(180000)
      [] level = "Executive" -> Whole(250000)

\* the Contract and Casual loadings exchanged
EmploymentAdjustment_Swapped(type) ==
    CASE type = "Permanent" -> Rat(10, 10)
      [] type = "Contract"  -> Rat(125, 100)
      [] type = "Casual"    -> Rat(12, 10)

EmploymentAdjustment(type) ==
    CASE type = "Permanent" -> Rat(10, 10)
      [] type = "Contract"  -> Rat(12, 10)
      [] type = "Casual"    -> Rat(125, 100)

base_salary_estimate(p) ==
    RMul(SeniorityAnchor(p.seniority_level), EmploymentAdjustment(p.employment_type))

(***************************************************************************)
(* estimate_overtime_multiplier                                            *)
(***************************************************************************)
BaseMultiplier(level) ==
    CASE level = "Entry"     -> Rat(105, 100)
      [] level = "Junior"    -> Rat(110, 100)
      [] level = "Mid"       -> Rat(115, 100)
      [] level = "Senior"    -> Rat(120, 100)
      [] level = "Lead"      -> Rat(125, 100)
      [] level = "Manager"   -> Rat(110, 100)
      [] level = "Director"  -> Rat(105, 100)
      [] level = "Executive" -> Rat(105, 100)

\* the keywords tried in the order of the median table
IndustryAdjustment_MedianOrder(prof) ==
    IF prof.some
    THEN LET s == to_lowercase(prof.value.industry)
         IN  IF contains(s, kw_mining) THEN Rat(130, 100)
             ELSE IF contains(s, kw_it) \/ contains(s, kw_technology) THEN Rat(115, 100)
             ELSE IF contains(s, kw_engineering) THEN Rat(120, 100)
             ELSE IF contains(s, kw_construction) THEN Rat(125, 100)
             ELSE Rat(10, 10)
    ELSE Rat(10, 10)

IndustryAdjustment(prof) ==
    IF prof.some
    THEN LET s == to_lowercase(prof.value.industry)
         IN  IF contains(s, kw_mining) THEN Rat(130, 100)
             ELSE IF contains(s, kw_construction) THEN Rat(125, 100)
             ELSE IF contains(s, kw_engineering) THEN Rat(120, 100)
             ELSE IF contains(s, kw_it) \/ contains(s, kw_technology) THEN Rat(115, 100)
             ELSE Rat(10, 10)
    ELSE Rat(10, 10)

PersonalAdjustment(prof) ==
    IF prof.some
    THEN LET a == prof.value.career_preferences.overtime_appetite
         IN  CASE a = "None"     -> Rat(95, 100)
               [] a = "Minimal"  -> Rat(10, 10)
               [] a = "Moderate" -> Rat(11, 10)
               [] a = "High"     -> Rat(125, 100)
               [] a = "Extreme"  -> Rat(14, 10)
    ELSE Rat(10, 10)

\* the personal adjustment left out of the product
estimate_overtime_multiplier_TwoFactors(p, prof) ==
    RMul(BaseMultiplier(p.seniority_level), IndustryAdjustment(prof))

estimate_overtime_multiplier(p, prof) ==
    RMul(RMul(BaseMultiplier(p.seniority_level), IndustryAdjustment(prof)),
         PersonalAdjustment(prof))

(***************************************************************************)
(* estimate_annual_hours, calculate_position_earnings                      *)
(***************************************************************************)
\* the Contract and Casual hours factors exchanged
HoursMultiplier_Swapped(type) ==
    CASE type = "Permanent" -> Rat(10, 10)
      [] type = "Contract"  -> Rat(8, 10)
      [] type = "Casual"    -> Rat(11, 10)

HoursMultiplier(type) ==
    CASE type = "Permanent" -> Rat(10, 10)
      [] type = "Contract"  -> Rat(11, 10)
      [] type = "Casual"    -> Rat(8, 10)

estimate_annual_hours(p) ==
    RMul(RMul(Whole(38), Whole(52)), HoursMultiplier(p.employment_type))

\* returns (actual_annual, effective_hourly)
calculate_position_earnings(p, prof) ==
    LET base_annual == base_salary_estimate(p)
        overtime_multiplier == estimate_overtime_multiplier(p, prof)
        actual_annual == RMul(base_annual, overtime_multiplier)
        annual_hours == estimate_annual_hours(p)
        effective_hourly == IF RGt(annual_hours, Whole(0))
                            THEN RDiv(actual_annual, annual_hours)
                            ELSE Whole(0)
    IN  <<actual_annual, effective_hourly>>

(***************************************************************************)
(* has_overtime_heavy_earnings                                             *)
(***************************************************************************)
OvertimeHeavyThreshold == Rat(12, 10)

has_overtime_heavy_earnings(ps) ==
    \E i \in 1..Len(ps) :
        RGt(estimate_overtime_multiplier(ps[i], None), OvertimeHeavyThreshold)

(***************************************************************************)
(* calculate_industry_median, calculate_income_percentile                  *)
(***************************************************************************)
\* the default arm returning the finance figure
calculate_industry_median_Default(text) ==
    LET s == to_lowercase(text)
    IN  IF contains(s, kw_mining) THEN Whole(125000)
        ELSE IF contains(s, kw_it) \/ contains(s, kw_technology) THEN Whole(110000)
        ELSE IF contains(s, kw_engineering) THEN Whole(105000)
        ELSE IF contains(s, kw_construction) THEN Whole(95000)
        ELSE IF contains(s, kw_healthcare) THEN Whole(85000)
        ELSE IF contains(s, kw_education) THEN Whole(80000)
        ELSE Whole(100000)

calculate_industry_median(text) ==
    LET s == to_lowercase(text)
    IN  IF contains(s, kw_mining) THEN Whole(125000)
        ELSE IF contains(s, kw_it) \/ contains(s, kw_technology) THEN Whole(110000)
        ELSE IF contains(s, kw_engineering) THEN Whole(105000)
        ELSE IF contains(s, kw_construction) THEN Whole(95000)
        ELSE IF contains(s, kw_healthcare) THEN Whole(85000)
        ELSE IF contains(s, kw_education) THEN Whole(80000)
        ELSE IF contains(s, kw_finance) THEN Whole(100000)
        ELSE Whole(90000)

\* strict comparisons: a boundary income falls into the higher band
calculate_income_percentile_Strict(inc, text) ==
    LET industry_median == calculate_industry_median(text)
    IN  IF RLt(inc, RMul(industry_median, Rat(75, 100))) THEN Whole(25)
        ELSE IF RLt(inc, industry_median) THEN Whole(50)
        ELSE IF RLt(inc, RMul(industry_median, Rat(125, 100))) THEN Whole(75)
        ELSE Whole(90)

calculate_income_percentile(inc, text) ==
    LET industry_median == calculate_industry_median(text)
    IN  IF RLe(inc, RMul(industry_median, Rat(75, 100))) THEN Whole(25)
        ELSE IF RLe(inc, industry_median) THEN Whole(50)
        ELSE IF RLe(inc, RMul(industry_median, Rat(125, 100))) THEN Whole(75)
        ELSE Whole(90)

(***************************************************************************)
(* calculate_earnings_analysis                                             *)
(***************************************************************************)
EarningsSnapshot(p, prof) ==
    LET e == calculate_position_earnings(p, prof)
    IN  [date |-> p.start_date,
         base_annual |-> base_salary_estimate(p),
         actual_annual |-> e[1],
         total_with_super |-> RMul(e[1], Rat(111, 100)),
         effective_hourly_rate |-> e[2]]

OvertimeInsight(ps, current_hourly) ==
    IF has_overtime_heavy_earnings(ps)
    THEN <<[category |-> "OvertimeHeavy",
            title |-> "Overtime-Heavy Compensation Detected",
            confidence_level |-> Rat(85, 100),
            data_points |-> <<current_hourly>>]>>
    ELSE <<>>

\* >= 75 in place of > 75
MarketInsight_Inclusive(percentile, current_total, text) ==
    IF RLt(percentile, Whole(25))
    THEN <<[category |-> "Underpaid",
            title |-> "Earnings Below Market Median",
            confidence_level |-> Rat(75, 100),
            data_points |-> <<current_total, calculate_industry_median(text)>>]>>
    ELSE IF RLe(Whole(75), percentile)
    THEN <<[category |-> "Overpaid",
            title |-> "Earnings Above Market",
            confidence_level |-> Rat(75, 100),
            data_points |-> <<current_total>>]>>
    ELSE <<>>

MarketInsight(percentile, current_total, text) ==
    IF RLt(percentile, Whole(25))
    THEN <<[category |-> "Underpaid",
            title |-> "Earnings Below Market Median",
            confidence_level |-> Rat(75, 100),
            data_points |-> <<current_total, calculate_industry_median(text)>>]>>
    ELSE IF RGt(percentile, Whole(75))
    THEN <<[category |-> "Overpaid",
            title |-> "Earnings Above Market",
            confidence_level |-> Rat(75, 100),
            data_points |-> <<current_total>>]>>
    ELSE <<>>

\* the position that starts latest taken as the current one
current_position_Latest(ps) ==
    IF Len(ps) > 0
    THEN Some(ps[CHOOSE i \in 1..Len(ps) :
                 /\ \A j \in 1..Len(ps) :
                        DayNumber(ps[j].start_date) <= DayNumber(ps[i].start_date)
                 /\ \A j \in 1..(i - 1) :
                        DayNumber(ps[j].start_date) < DayNumber(ps[i].start_date)])
    ELSE None

\* positions.first()
current_position(ps) == IF Len(ps) > 0 THEN Some(ps[1]) ELSE None

calculate_earnings_analysis(ps, prof) ==
    LET current == IF current_position(ps).some
                   THEN calculate_position_earnings(current_position(ps).value, prof)
                   ELSE <<Whole(0), Whole(0)>>
        current_total == current[1]
        current_hourly == current[2]
        insights ==
            IF prof.some
            THEN OvertimeInsight(ps, current_hourly)
                 \o MarketInsight(
                        calculate_income_percentile(current_total, prof.value.industry),
                        current_total, prof.value.industry)
            ELSE <<>>
    IN  [kind |-> "EarningsAnalysis",
         current_total_compensation |-> current_total,
         current_effective_hourly_rate |-> current_hourly,
         income_percentile |->
            calculate_income_percentile(current_total,
                IF prof.some THEN prof.value.industry ELSE UnknownText),
         loyalty_tax_annual |-> Whole(0),
         loyalty_tax_cumulative |-> Whole(0),
         earnings_over_time |-> [i \in 1..Len(ps) |-> EarningsSnapshot(ps[i], prof)],
         hours_vs_earnings |-> <<>>,
         super_trajectory |-> <<>>,
         insights |-> insights]

(***************************************************************************)
(* calculate_loyalty_tax                                                   *)
(***************************************************************************)
MARKET_GROWTH_RATES ==
    <<<<"Entry", Rat(4, 100)>>, <<"Junior", Rat(5, 100)>>, <<"Mid", Rat(6, 100)>>,
      <<"Senior", Rat(7, 100)>>, <<"Lead", Rat(8, 100)>>, <<"Manager", Rat(8, 100)>>,
      <<"Director", Rat(9, 100)>>, <<"Executive", Rat(10, 100)>>>>

\* the lookup falling through to the unwrap_or default
MarketExpected_Default(level) == Rat(5, 100)

\* MARKET_GROWTH_RATES.iter().find(..).map(..).unwrap_or(0.05)
MarketExpected(level) ==
    LET hits == {i \in 1..Len(MARKET_GROWTH_RATES) : MARKET_GROWTH_RATES[i][1] = level}
    IN  IF hits = {} THEN Rat(5, 100)
        ELSE MARKET_GROWTH_RATES[CHOOSE i \in hits : \A j \in hits : i <= j][2]

\* the keys of employer_groups
EmployerKeys(ps) == {ps[i].employer_name : i \in 1..Len(ps)}

\* the names "Acme" and "acme" of the inputs compared ignoring case
EmployerGroup_IgnoreCase(ps, employer) ==
    LET Fold(name) == IF name = "acme" THEN "Acme" ELSE name
        IsOf(p) == Fold(p.employer_name) = Fold(employer)
    IN  SelectSeq(ps, IsOf)

\* employer_groups[employer]: the positions of one employer, in input order
EmployerGroup(ps, employer) ==
    LET IsOf(p) == p.employer_name = employer
    IN  SelectSeq(ps, IsOf)

\* no sort: the group stays in input order
SortedInsert_InputOrder(s, x) == Append(s, x)

\* the sort made descending: x goes after every element whose key is >= its key
SortedInsert_Descending(s, x) ==
    LET k == Cardinality({i \in 1..Len(s) :
                 DayNumber(s[i].start_date) >= DayNumber(x.start_date)})
    IN  SubSeq(s, 1, k) \o <<x>> \o SubSeq(s, k + 1, Len(s))

\* one step of the stable sort: x goes after every element whose key is <= its key
SortedInsert(s, x) ==
    LET k == Cardinality({i \in 1..Len(s) :
                 DayNumber(s[i].start_date) <= DayNumber(x.start_date)})
    IN  SubSeq(s, 1, k) \o <<x>> \o SubSeq(s, k + 1, Len(s))

\* sorted_positions.sort_by_key(|p| p.start_date): a stable sort
RECURSIVE sort_by_start_date(_)
sort_by_start_date(s) ==
    IF Len(s) = 0 THEN <<>>
    ELSE SortedInsert(sort_by_start_date(SubSeq(s, 1, Len(s) - 1)), s[Len(s)])

unwrap_or_cutoff(opt) == IF opt.some THEN opt.value ELSE Cutoff

\* the days divided by 365 in place of 365.25
TenureYears_CommonYear(start, end) == RDiv(Whole(num_days(end, start)), Whole(365))

TenureYears(start, end) == RDiv(Whole(num_days(end, start)), DaysPerYear)

TenureThreshold == Whole(2)

\* the floor at zero left out
LoyaltyTaxImpact_NoFloor(last_salary, loyalty_tax_rate, tenure_years) ==
    RMul(RMul(last_salary, loyalty_tax_rate), tenure_years)

LoyaltyTaxImpact(last_salary, loyalty_tax_rate, tenure_years) ==
    IF RGt(loyalty_tax_rate, Whole(0))
    THEN RMul(RMul(last_salary, loyalty_tax_rate), tenure_years)
    ELSE Whole(0)

\* the body of the loop over employer_groups: the block pushed, if any
TenureBlockOf(employer, pos_list) ==
    LET sorted_positions == sort_by_start_date(pos_list)
        first == sorted_positions[1]
        last == sorted_positions[Len(sorted_positions)]
        start_date == first.start_date
        end_date == unwrap_or_cutoff(last.end_date)
        tenure_years == TenureYears(start_date, end_date)
        first_salary == base_salary_estimate(first)
        last_salary == base_salary_estimate(last)
        actual_progression ==
            IF RGt(first_salary, Whole(0))
            THEN RDiv(RDiv(RSub(last_salary, first_salary), first_salary), tenure_years)
            ELSE Whole(0)
        market_expected == MarketExpected(last.seniority_level)
        loyalty_tax_rate == RSub(market_expected, actual_progression)
    IN  IF RGt(tenure_years, TenureThreshold)
        THEN Some([employer_name |-> employer,
                   start_date |-> start_date,
                   end_date |-> Some(end_date),
                   years_of_service |-> tenure_years,
                   actual_progression |-> RMul(actual_progression, Whole(100)),
                   market_expected_progression |-> RMul(market_expected, Whole(100)),
                   loyalty_tax_impact |->
                       LoyaltyTaxImpact(last_salary, loyalty_tax_rate, tenure_years)])
        ELSE None

\* tenure_blocks after the groups order[1..k] have been visited
RECURSIVE TenureBlocks(_, _, _)
TenureBlocks(ps, order, k) ==
    IF k = 0 THEN <<>>
    ELSE LET b == TenureBlockOf(order[k], EmployerGroup(ps, order[k]))
         IN  TenureBlocks(ps, order, k - 1) \o (IF b.some THEN <<b.value>> ELSE <<>>)

\* cumulative_tax assigned (=) instead of accumulated (+=)
CumulativeTax_Assigned(blocks, k) ==
    IF k = 0 THEN Whole(0) ELSE blocks[k].loyalty_tax_impact

\* cumulative_tax after the blocks blocks[1..k] have been pushed
RECURSIVE CumulativeTax(_, _)
CumulativeTax(blocks, k) ==
    IF k = 0 THEN Whole(0)
    ELSE RAdd(CumulativeTax(blocks, k - 1), blocks[k].loyalty_tax_impact)

\* confidence taken from the impacts instead of from the number of blocks
ConfidenceLevel_FromImpact(tenure_blocks) ==
    IF \A i \in 1..Len(tenure_blocks) : tenure_blocks[i].loyalty_tax_impact = Whole(0)
    THEN Whole(0)
    ELSE Rat(75, 100)

ConfidenceLevel(tenure_blocks) ==
    IF Len(tenure_blocks) = 0 THEN Whole(0) ELSE Rat(75, 100)

\* annual_loyalty_tax filled with one entry per emitted block
calculate_loyalty_tax_Yearly(ps, order) ==
    LET tenure_blocks == TenureBlocks(ps, order, Len(order))
    IN  [kind |-> "LoyaltyTaxAnalysis",
         tenure_blocks |-> tenure_blocks,
         market_comparison |-> [industry_average_growth |-> Rat(6, 100),
                                role_level_growth |-> Rat(7, 100),
                                cpi_adjusted_growth |-> Rat(3, 100)],
         annual_loyalty_tax |->
             [i \in 1..Len(tenure_blocks) |->
                 [year |-> tenure_blocks[i].start_date.year,
                  loyalty_tax |-> tenure_blocks[i].loyalty_tax_impact]],
         cumulative_loyalty_tax |-> CumulativeTax(tenure_blocks, Len(tenure_blocks)),
         confidence_level |-> ConfidenceLevel(tenure_blocks)]

\* order: the order in which the HashMap yields the employer groups
calculate_loyalty_tax(ps, order) ==
    LET tenure_blocks == TenureBlocks(ps, order, Len(order))
    IN  [kind |-> "LoyaltyTaxAnalysis",
         tenure_blocks |-> tenure_blocks,
         market_comparison |-> [industry_average_growth |-> Rat(6, 100),
                                role_level_growth |-> Rat(7, 100),
                                cpi_adjusted_growth |-> Rat(3, 100)],
         annual_loyalty_tax |-> <<>>,
         cumulative_loyalty_tax |-> CumulativeTax(tenure_blocks, Len(tenure_blocks)),
         confidence_level |-> ConfidenceLevel(tenure_blocks)]

\* the unwrap() calls of the loop body: first()/last() of an employer's group
calculate_loyalty_tax_panics(ps) ==
    \E e \in EmployerKeys(ps) : Len(sort_by_start_date(EmployerGroup(ps, e))) = 0

\* every order a HashMap over these keys can be iterated in
IterationOrders(keys) ==
    {o \in [1..Cardinality(keys) -> keys] : \A i, j \in DOMAIN o : o[i] = o[j] => i = j}

(***************************************************************************)
(* generate_resume_export and its helpers                                  *)
(***************************************************************************)
\* Rust integer division and remainder truncate toward zero
TruncDiv(a, b) == IF a >= 0 THEN a \div b ELSE -((-a) \div b)

TruncRem(a, b) == a - b * TruncDiv(a, b)

\* a month counted only once its day of the month is reached
format_duration_WholeMonths(start, end) ==
    LET months == (end.year - start.year) * 12 + ((end.month - 1) - (start.month - 1))
                      - (IF end.day < start.day THEN 1 ELSE 0)
        years == TruncDiv(months, 12)
        remaining_months == TruncRem(months, 12)
    IN  IF years > 0
        THEN IF remaining_months > 0
             THEN ToString(years) \o "y " \o ToString(remaining_months) \o "m"
             ELSE ToString(years) \o "y"
        ELSE ToString(remaining_months) \o "m"

format_duration(start, end) ==
    LET months == (end.year - start.year) * 12 + ((end.month - 1) - (start.month - 1))
        years == TruncDiv(months, 12)
        remaining_months == TruncRem(months, 12)
    IN  IF years > 0
        THEN IF remaining_months > 0
             THEN ToString(years) \o "y " \o ToString(remaining_months) \o "m"
             ELSE ToString(years) \o "y"
        ELSE ToString(remaining_months) \o "m"

\* start_date.format("%b %Y")
MonthAbbrev ==
    <<"Jan", "Feb", "Mar", "Apr", "May", "Jun", "Jul", "Aug", "Sep", "Oct", "Nov", "Dec">>

PositionDuration(p) ==
    IF p.end_date.some
    THEN format_duration(p.start_date, p.end_date.value)
    ELSE MonthAbbrev[p.start_date.month] \o " " \o ToString(p.start_date.year)
             \o " - Present"

\* str::trim over lines of text given as sequences of characters
RECURSIVE trim(_)
trim(line) ==
    IF Len(line) = 0 THEN line
    ELSE IF line[1] = " " THEN trim(Tail(line))
    ELSE IF line[Len(line)] = " " THEN trim(SubSeq(line, 1, Len(line) - 1))
    ELSE line

\* core_responsibilities.lines().map(trim).filter(non-empty)
Responsibilities(lines) ==
    LET NonEmpty(l) == Len(l) > 0
    IN  SelectSeq([i \in 1..Len(lines) |-> trim(lines[i])], NonEmpty)

RECURSIVE FlatMap(_, _)
FlatMap(ps, k) ==
    IF k = 0 THEN <<>> ELSE FlatMap(ps, k - 1) \o ps[k]

\* overlapping positions counted once: earliest start to latest end-or-cutoff
calculate_total_experience_Dedup(ps) ==
    IF Len(ps) = 0 THEN Whole(0)
    ELSE LET starts == {DayNumber(ps[i].start_date) : i \in 1..Len(ps)}
             ends == {DayNumber(unwrap_or_cutoff(ps[i].end_date)) : i \in 1..Len(ps)}
             lo == CHOOSE x \in starts : \A y \in starts : x <= y
             hi == CHOOSE x \in ends : \A y \in ends : y <= x
         IN  RDiv(Whole(hi - lo), DaysPerYear)

calculate_total_experience(ps) ==
    LET RECURSIVE total_days(_)
        total_days(k) ==
            IF k = 0 THEN 0
            ELSE total_days(k - 1)
                     + num_days(unwrap_or_cutoff(ps[k].end_date), ps[k].start_date)
    IN  RDiv(Whole(total_days(Len(ps))), DaysPerYear)

RECURSIVE CareerTotal(_, _)
CareerTotal(ps, k) ==
    IF k = 0 THEN Whole(0)
    ELSE RAdd(CareerTotal(ps, k - 1),
              RMul(base_salary_estimate(ps[k]), estimate_overtime_multiplier(ps[k], None)))

\* the change divided by the base of the first list element
AverageIncrease_FirstBase(ps) ==
    IF Len(ps) > 1
    THEN LET first_salary == base_salary_estimate(ps[Len(ps)])
             last_salary == base_salary_estimate(ps[1])
             years == calculate_total_experience(ps)
         IN  IF RGt(years, Whole(0)) /\ RGt(first_salary, Whole(0))
             THEN RMul(RDiv(RDiv(RSub(last_salary, first_salary), last_salary), years),
                       Whole(100))
             ELSE Whole(0)
    ELSE Whole(0)

AverageIncrease(ps) ==
    IF Len(ps) > 1
    THEN LET first_salary == base_salary_estimate(ps[Len(ps)])
             last_salary == base_salary_estimate(ps[1])
             years == calculate_total_experience(ps)
         IN  IF RGt(years, Whole(0)) /\ RGt(first_salary, Whole(0))
             THEN RMul(RDiv(RDiv(RSub(last_salary, first_salary), first_salary), years),
                       Whole(100))
             ELSE Whole(0)
    ELSE Whole(0)

\* the early return left out
SummaryIsEmpty_Never(ps) == FALSE

\* the early return of calculate_compensation_summary
SummaryIsEmpty(ps) == Len(ps) = 0

calculate_compensation_summary(ps) ==
    IF SummaryIsEmpty(ps)
    THEN [current_base |-> Whole(0), current_total |-> Whole(0),
          career_earnings_total |-> Whole(0), average_annual_increase |-> Whole(0)]
    ELSE LET current_base == base_salary_estimate(ps[1])
         IN  [current_base |-> current_base,
              current_total |-> RMul(current_base, estimate_overtime_multiplier(ps[1], None)),
              career_earnings_total |-> CareerTotal(ps, Len(ps)),
              average_annual_increase |-> AverageIncrease(ps)]

\* positions.first().unwrap() past the early return; positions.last().unwrap()
\* under positions.len() > 1
calculate_compensation_summary_panics(ps) ==
    ~SummaryIsEmpty(ps) /\ Len(ps) = 0

ProfileSummary(ps, prof) ==
    IF prof.some
    THEN [name |-> prof.value.first_name \o " " \o prof.value.last_name,
          age |-> Cutoff.year - prof.value.date_of_birth.year,
          location |-> prof.value.state,
          industry |-> prof.value.industry,
          experience_years |-> calculate_total_experience(ps),
          seniority_level |-> IF Len(ps) > 0 THEN ps[1].seniority_level ELSE "Entry"]
    ELSE [name |-> "Unknown",
          age |-> 0,
          location |-> "Unknown",
          industry |-> UnknownText,
          experience_years |-> Whole(0),
          seniority_level |-> "Entry"]

ResumePosition(p) ==
    [employer |-> p.employer_name,
     title |-> p.job_title,
     duration |-> PositionDuration(p),
     responsibilities |-> Responsibilities(p.core_responsibilities),
     achievements |-> p.achievements,
     skills_used |-> p.tools_systems_skills]

\* the preferences of the input profile constructor in place of the neutral set
DefaultPreferences_Acknowledged ==
    [employment_type_preference |-> "Permanent",
     fifo_tolerance |-> "None",
     travel_tolerance |-> "None",
     overtime_appetite |-> "Moderate",
     privacy_acknowledged |-> TRUE,
     disclaimer_acknowledged |-> TRUE]

DefaultPreferences ==
    [employment_type_preference |-> "Permanent",
     fifo_tolerance |-> "None",
     travel_tolerance |-> "None",
     overtime_appetite |-> "Moderate",
     privacy_acknowledged |-> FALSE,
     disclaimer_acknowledged |-> FALSE]

generate_resume_export(ps, prof) ==
    [kind |-> "ResumeExport",
     profile_summary |-> ProfileSummary(ps, prof),
     career_timeline |-> [i \in 1..Len(ps) |-> ResumePosition(ps[i])],
     achievements |-> FlatMap([i \in 1..Len(ps) |-> ps[i].achievements], Len(ps)),
     skills_and_tools |-> FlatMap([i \in 1..Len(ps) |-> ps[i].tools_systems_skills], Len(ps)),
     compensation_summary |-> calculate_compensation_summary(ps),
     target_preferences |->
         IF prof.some THEN prof.value.career_preferences ELSE DefaultPreferences]

(***************************************************************************)
(* Database (database.rs)                                                  *)
(***************************************************************************)
\* the tables after migrate() on a new file; sequence holds, per table, the
\* largest rowid AUTOINCREMENT has handed out
EmptyDatabase ==
    [user_profile |-> {},
     positions |-> {},
     compensation_records |-> {},
     sequence |-> [user_profile |-> 0, positions |-> 0, compensation_records |-> 0]]

\* a struct value with its id field set
WithId(data, id) ==
    [f \in DOMAIN data \cup {"id"} |-> IF f = "id" THEN id ELSE data[f]]

\* the columns of a struct value: everything but the id
Columns(value) == [f \in DOMAIN value \ {"id"} |-> value[f]]

\* the row a scan of the table meets first: the one of the least rowid
FirstRow(table) == CHOOSE r \in table : \A q \in table : r.id <= q.id

\* SELECT .. FROM user_profile LIMIT 1
get_user_profile(db) ==
    IF db.user_profile = {} THEN None
    ELSE LET r == FirstRow(db.user_profile)
         IN  Some(WithId(r.data, Some(r.id)))

\* UPDATE .. WHERE id = ?15 when the argument carries an id, INSERT otherwise
save_user_profile(db, p) ==
    IF p.id.some
    THEN [db EXCEPT !.user_profile =
             {IF r.id = p.id.value THEN [id |-> r.id, data |-> Columns(p)] ELSE r :
                 r \in @}]
    ELSE LET id == db.sequence.user_profile + 1
         IN  [db EXCEPT !.user_profile = @ \cup {[id |-> id, data |-> Columns(p)]},
                        !.sequence.user_profile = id]

\* every sequence that lists each row of the table once
RowOrders(table) ==
    {o \in [1..Cardinality(table) -> table] : \A i, j \in DOMAIN o : o[i] = o[j] => i = j}

\* the rows in ascending order of start_date
get_positions_Ascending(db) ==
    {[i \in DOMAIN o |-> WithId(o[i].data, Some(o[i].id))] :
        o \in {o \in RowOrders(db.positions) :
                  \A i, j \in DOMAIN o :
                      i < j => DayNumber(o[i].data.start_date)
                                   <= DayNumber(o[j].data.start_date)}}

\* SELECT .. FROM positions ORDER BY start_date DESC: the results the query can
\* return; rows of equal start_date come in an order SQL leaves open
get_positions(db) ==
    {[i \in DOMAIN o |-> WithId(o[i].data, Some(o[i].id))] :
        o \in {o \in RowOrders(db.positions) :
                  \A i, j \in DOMAIN o :
                      i < j => DayNumber(o[i].data.start_date)
                                   >= DayNumber(o[j].data.start_date)}}

\* returns <<database, id>>
save_position(db, p) ==
    IF p.id.some
    THEN <<[db EXCEPT !.positions =
               {IF r.id = p.id.value THEN [id |-> r.id, data |-> Columns(p)] ELSE r :
                   r \in @}],
           p.id.value>>
    ELSE LET id == db.sequence.positions + 1
         IN  <<[db EXCEPT !.positions = @ \cup {[id |-> id, data |-> Columns(p)]},
                          !.sequence.positions = id],
               id>>

\* the row deleted and its compensation records left behind
delete_position_NoCascade(db, id) ==
    [db EXCEPT !.positions = {r \in @ : r.id # id}]

\* DELETE FROM positions WHERE id = ?1; foreign_keys is ON and
\* compensation_records.position_id is declared ON DELETE CASCADE
delete_position(db, id) ==
    [db EXCEPT !.positions = {r \in @ : r.id # id},
               !.compensation_records = {r \in @ : r.data.position_id # id}]

\* returns <<database, result>>. UPDATE .. WHERE id = ?19 sets every column but
\* position_id; INSERT fails on the foreign key when no position has the id
save_compensation_record(db, record) ==
    IF record.id.some
    THEN <<[db EXCEPT !.compensation_records =
               {IF r.id = record.id.value
                THEN [id |-> r.id,
                      data |-> [Columns(record) EXCEPT !.position_id = r.data.position_id]]
                ELSE r : r \in @}],
           [kind |-> "Id", value |-> record.id.value]>>
    ELSE IF \E p \in db.positions : p.id = record.position_id
    THEN LET id == db.sequence.compensation_records + 1
         IN  <<[db EXCEPT !.compensation_records =
                              @ \cup {[id |-> id, data |-> Columns(record)]},
                          !.sequence.compensation_records = id],
               [kind |-> "Id", value |-> id]>>
    ELSE <<db, [kind |-> "Err"]>>

\* DELETE FROM compensation_records WHERE id = ?1
delete_compensation_record(db, id) ==
    [db EXCEPT !.compensation_records = {r \in @ : r.id # id}]

(***************************************************************************)
(* Inputs: the bounded sets the engine is applied to                       *)
(***************************************************************************)
MaxPositions == 2

Position(employer, type, level, start, end) ==
    [employer_name |-> employer,
     job_title |-> "Engineer",
     employment_type |-> type,
     start_date |-> start,
     end_date |-> end,
     seniority_level |-> level,
     core_responsibilities |-> <<<<" ", "P", "l", "a", "n", " ">>, <<" ">>, <<"B", "u", "i", "l", "d">>>>,
     tools_systems_skills |-> <<"CAD">>,
     achievements |-> <<"Award">>]

UserProfile(text, appetite) ==
    [first_name |-> "Alex",
     last_name |-> "Smith",
     date_of_birth |-> Date(1990, 6, 15),
     state |-> "NSW",
     industry |-> text,
     career_preferences |->
         [employment_type_preference |-> "Contract",
          fifo_tolerance |-> "Limited",
          travel_tolerance |-> "Regional",
          overtime_appetite |-> appetite,
          privacy_acknowledged |-> TRUE,
          disclaimer_acknowledged |-> TRUE]]

\* industry texts: every keyword of both tables, upper case, a text that
\* holds "it" inside another word, a text with two keywords, and unmatched ones
Industries ==
    {<<"M", "i", "n", "i", "n", "g">>,
     <<"C", "o", "n", "s", "t", "r", "u", "c", "t", "i", "o", "n">>,
     <<"E", "n", "g", "i", "n", "e", "e", "r", "i", "n", "g">>,
     <<"I", "T">>,
     <<"T", "e", "c", "h", "n", "o", "l", "o", "g", "y">>,
     <<"H", "e", "a", "l", "t", "h", "c", "a", "r", "e">>,
     <<"E", "d", "u", "c", "a", "t", "i", "o", "n">>,
     <<"F", "i", "n", "a", "n", "c", "e">>,
     <<"R", "e", "t", "a", "i", "l">>,
     <<"H", "o", "s", "p", "i", "t", "a", "l", "i", "t", "y">>,
     <<"M", "I", "N", "I", "N", "G">>,
     <<"I", "T", " ", "E", "n", "g", "i", "n", "e", "e", "r", "i", "n", "g">>,
     <<"C", "o", "n", "s", "t", "r", "u", "c", "t", "i", "o", "n", " ", "M", "i", "n", "i", "n", "g">>,
     <<"E", "n", "g", "i", "n", "e", "e", "r", "i", "n", "g", " ", "C", "o", "n", "s", "t", "r", "u", "c", "t", "i", "o", "n">>,
     UnknownText}

\* position lists of length 0..MaxPositions over a set of positions
PositionLists(universe) ==
    UNION {[1..n -> universe] : n \in 0..MaxPositions}

\* (start_date, end_date) pairs with start_date <= end_date; the spans around
\* the two-year threshold are 730 and 731 days long
LoyaltySpans ==
    {<<Date(2019, 1, 1), Some(Date(2021, 1, 1))>>,
     <<Date(2019, 1, 1), Some(Date(2020, 12, 31))>>,
     <<Date(2019, 1, 1), None>>,
     <<Date(2021, 1, 1), None>>,
     <<Date(2021, 1, 1), Some(Date(2021, 12, 31))>>,
     <<Date(2022, 12, 31), None>>,
     <<Date(2023, 1, 1), None>>}

LoyaltyPositions ==
    {Position(e, r[1], r[2], sp[1], sp[2]) :
        e \in {"Acme", "acme"},
        r \in {<<"Permanent", "Mid">>, <<"Permanent", "Senior">>, <<"Contract", "Executive">>},
        sp \in LoyaltySpans}

EngineSpans ==
    {<<Date(2020, 1, 15), Some(Date(2022, 4, 15))>>,
     <<Date(2021, 1, 1), None>>}

EnginePositions ==
    {Position("Acme", r[1], r[2], sp[1], sp[2]) :
        r \in {<<"Permanent", "Entry">>, <<"Permanent", "Junior">>, <<"Permanent", "Senior">>,
               <<"Contract", "Lead">>, <<"Casual", "Executive">>},
        sp \in EngineSpans}

EngineProfiles ==
    {Some(UserProfile(t, a)) :
        t \in {<<"M", "i", "n", "i", "n", "g">>, <<"R", "e", "t", "a", "i", "l">>},
        a \in {"None", "Moderate", "Extreme"}}
    \cup {None}

EstimatorPositions ==
    {Position("Acme", t, l, Date(2021, 1, 1), None) :
        t \in EmploymentType, l \in SeniorityLevel}

EstimatorProfiles ==
    {Some(UserProfile(t, a)) : t \in Industries, a \in OvertimeAppetite} \cup {None}

\* (start_date, end_date) pairs with start_date <= end_date: the three examples
\* of the duration format, spans of one day across a month and across a year,
\* spans of no days, and an open-ended span
ResumeSpans ==
    {<<Date(2020, 1, 15), Some(Date(2022, 4, 15))>>,
     <<Date(2020, 1, 15), Some(Date(2020, 6, 15))>>,
     <<Date(2020, 1, 15), Some(Date(2022, 1, 15))>>,
     <<Date(2020, 1, 15), Some(Date(2020, 1, 15))>>,
     <<Date(2020, 1, 31), Some(Date(2020, 2, 1))>>,
     <<Date(2019, 12, 31), Some(Date(2020, 1, 1))>>,
     <<Date(2021, 1, 1), None>>,
     <<Date(2024, 12, 31), None>>}

ResumePositions ==
    {Position("Acme", r[1], r[2], sp[1], sp[2]) :
        r \in {<<"Permanent", "Entry">>, <<"Permanent", "Senior">>, <<"Contract", "Lead">>},
        sp \in ResumeSpans}

ResumeProfiles ==
    {Some(UserProfile(<<"M", "i", "n", "i", "n", "g">>, "Extreme")), None}

\* the largest rowid a table hands out
MaxRowId == 2

\* the commands that may be running at once
Threads == {1, 2}

RowIds == 1..MaxRowId

StoreProfiles ==
    {UserProfile(<<"M", "i", "n", "i", "n", "g">>, "Extreme"),
     UserProfile(<<"R", "e", "t", "a", "i", "l">>, "None")}

StorePositions ==
    {Position("Acme", "Permanent", "Senior", Date(2020, 1, 15), Some(Date(2022, 4, 15))),
     Position("Acme", "Contract", "Lead", Date(2021, 1, 1), None)}

CompensationRecord(position_id, base_rate) ==
    [position_id |-> position_id, pay_type |-> "Salary", base_rate |-> base_rate]

StoreRecords ==
    {CompensationRecord(k, rate) : k \in RowIds, rate \in {Whole(80000), Whole(90000)}}

\* the values a caller passes: a struct with no id, or with the id of a row
Arguments(values) ==
    {WithId(v, id) : v \in values, id \in {None} \cup {Some(k) : k \in RowIds}}

\* the DataExport values handed to import_all_data
ImportData ==
    [user_profile : {None} \cup {Some(p) : p \in Arguments(StoreProfiles)},
     positions : {<<>>} \cup {<<p>> : p \in Arguments(StorePositions)}]

Medians ==
    {Whole(125000), Whole(110000), Whole(105000), Whole(95000),
     Whole(85000), Whole(80000), Whole(100000), Whole(90000)}

\* incomes at, one dollar below and one dollar above every band boundary
Incomes ==
    {RAdd(RMul(m, f), Whole(k)) :
        m \in Medians, f \in {Rat(75, 100), Whole(1), Rat(125, 100)}, k \in {-1, 0, 1}}
    \cup {Whole(0), Whole(1000000)}

(***************************************************************************)
(* State: the arguments of a call and the value it returned                *)
(***************************************************************************)
NoReport == [kind |-> "None"]

\* the Mutex<Database> of AppState when no guard is alive
Unlocked == 0

\* a thread that is running no command
IdleCall ==
    [op |-> "none", pc |-> "idle", positions |-> <<>>, profile |-> None,
     data |-> <<>>, count |-> 0, result |-> NoReport]

Panic == [kind |-> "Panic"]

\* the front end holds no DataExport
NoBackup == [phase |-> "none", data |-> NoReport]

InitEngine ==
    /\ positions \in PositionLists(EnginePositions)
    /\ profile \in EngineProfiles
    /\ income = Whole(0)
    /\ industry = <<>>
    /\ report = NoReport
    /\ store = EmptyDatabase
    /\ lock = Unlocked
    /\ calls = [t \in Threads |-> IdleCall]
    /\ backup = NoBackup

InitPercentile ==
    /\ positions = <<>>
    /\ profile = None
    /\ income \in Incomes
    /\ industry \in Industries
    /\ report = NoReport
    /\ store = EmptyDatabase
    /\ lock = Unlocked
    /\ calls = [t \in Threads |-> IdleCall]
    /\ backup = NoBackup

InitEstimator ==
    /\ positions \in {<<p>> : p \in EstimatorPositions}
    /\ profile \in EstimatorProfiles
    /\ income = Whole(0)
    /\ industry = <<>>
    /\ report = NoReport
    /\ store = EmptyDatabase
    /\ lock = Unlocked
    /\ calls = [t \in Threads |-> IdleCall]
    /\ backup = NoBackup

InitLoyalty ==
    /\ positions \in PositionLists(LoyaltyPositions)
    /\ profile = None
    /\ income = Whole(0)
    /\ industry = <<>>
    /\ report = NoReport
    /\ store = EmptyDatabase
    /\ lock = Unlocked
    /\ calls = [t \in Threads |-> IdleCall]
    /\ backup = NoBackup

InitResume ==
    /\ positions \in PositionLists(ResumePositions)
    /\ profile \in ResumeProfiles
    /\ income = Whole(0)
    /\ industry = <<>>
    /\ report = NoReport
    /\ store = EmptyDatabase
    /\ lock = Unlocked
    /\ calls = [t \in Threads |-> IdleCall]
    /\ backup = NoBackup

Init == InitEngine \/ InitPercentile

(***************************************************************************)
(* Actions: one per function of the engine                                 *)
(***************************************************************************)
BaseSalaryEstimate ==
    /\ Len(positions) > 0
    /\ report' = [kind |-> "base_salary_estimate",
                  value |-> base_salary_estimate(positions[1])]
    /\ UNCHANGED <<positions, profile, income, industry, store, lock, calls, backup>>

EstimateOvertimeMultiplier ==
    /\ Len(positions) > 0
    /\ report' = [kind |-> "overtime_multiplier",
                  value |-> estimate_overtime_multiplier(positions[1], profile)]
    /\ UNCHANGED <<positions, profile, income, industry, store, lock, calls, backup>>

CalculateIncomePercentile ==
    /\ report' = [kind |-> "income_percentile",
                  value |-> calculate_income_percentile(income, industry)]
    /\ UNCHANGED <<positions, profile, income, industry, store, lock, calls, backup>>

CalculateEarningsAnalysis ==
    /\ report' = calculate_earnings_analysis(positions, profile)
    /\ UNCHANGED <<positions, profile, income, industry, store, lock, calls, backup>>

CalculateLoyaltyTax ==
    /\ \E order \in IterationOrders(EmployerKeys(positions)) :
           report' = IF calculate_loyalty_tax_panics(positions)
                     THEN Panic
                     ELSE calculate_loyalty_tax(positions, order)
    /\ UNCHANGED <<positions, profile, income, industry, store, lock, calls, backup>>

GenerateResumeExport ==
    /\ report' = IF calculate_compensation_summary_panics(positions)
                 THEN Panic
                 ELSE generate_resume_export(positions, profile)
    /\ UNCHANGED <<positions, profile, income, industry, store, lock, calls, backup>>

Next ==
    \/ CalculateIncomePercentile
    \/ CalculateEarningsAnalysis
    \/ CalculateLoyaltyTax
    \/ GenerateResumeExport

Spec == Init /\ [][Next]_vars

NextEstimator ==
    \/ BaseSalaryEstimate
    \/ EstimateOvertimeMultiplier

SpecEstimator == InitEstimator /\ [][NextEstimator]_vars

NextLoyalty == CalculateLoyaltyTax

SpecLoyalty == InitLoyalty /\ [][NextLoyalty]_vars

NextResume == GenerateResumeExport

SpecResume == InitResume /\ [][NextResume]_vars

(***************************************************************************)
(* Commands (main.rs): each runs on a thread of its own, takes the lock,   *)
(* makes its calls on the Database one at a time and drops the guard when  *)
(* it returns                                                              *)
(***************************************************************************)
Commands ==
    {"get_user_profile", "save_user_profile", "get_positions", "save_position",
     "delete_position", "calculate_earnings_analysis", "calculate_loyalty_tax",
     "generate_resume_export", "export_all_data", "import_all_data", "clear_all_data"}

At(t, op, pc) == calls[t].op = op /\ calls[t].pc = pc

Goto(t, pc) == calls' = [calls EXCEPT ![t].pc = pc]

Finish(t, result) == calls' = [calls EXCEPT ![t].pc = "return", ![t].result = result]

EngineUnchanged == UNCHANGED <<positions, profile, income, industry, report, backup>>

\* an INSERT is modelled while the table's sequence is below MaxRowId
CanSave(value, table) == value.id.some \/ store.sequence[table] < MaxRowId

\* the front end invokes a command
Invoke(t) ==
    /\ calls[t].pc = "idle"
    /\ \E op \in Commands : calls' = [calls EXCEPT ![t].op = op, ![t].pc = "lock"]
    /\ UNCHANGED <<store, lock>>
    /\ EngineUnchanged

\* the guard taken with no regard to who holds the lock
Lock_Unguarded(t) ==
    /\ calls[t].pc = "lock"
    /\ lock' = t
    /\ Goto(t, "body")
    /\ UNCHANGED store
    /\ EngineUnchanged

\* state.db.lock(): blocks until no other guard is alive
Lock(t) ==
    /\ calls[t].pc = "lock"
    /\ lock = Unlocked
    /\ lock' = t
    /\ Goto(t, "body")
    /\ UNCHANGED store
    /\ EngineUnchanged

GetUserProfile(t) ==
    /\ At(t, "get_user_profile", "body")
    /\ Finish(t, [kind |-> "UserProfile", value |-> get_user_profile(store)])
    /\ UNCHANGED <<store, lock>>
    /\ EngineUnchanged

SaveUserProfile(t) ==
    /\ At(t, "save_user_profile", "body")
    /\ \E p \in Arguments(StoreProfiles) :
           /\ CanSave(p, "user_profile")
           /\ store' = save_user_profile(store, p)
    /\ Finish(t, [kind |-> "Unit"])
    /\ UNCHANGED lock
    /\ EngineUnchanged

GetPositions(t) ==
    /\ At(t, "get_positions", "body")
    /\ \E ps \in get_positions(store) : Finish(t, [kind |-> "Positions", value |-> ps])
    /\ UNCHANGED <<store, lock>>
    /\ EngineUnchanged

SavePosition(t) ==
    /\ At(t, "save_position", "body")
    /\ \E p \in Arguments(StorePositions) :
           /\ CanSave(p, "positions")
           /\ store' = save_position(store, p)[1]
           /\ Finish(t, [kind |-> "Id", value |-> save_position(store, p)[2]])
    /\ UNCHANGED lock
    /\ EngineUnchanged

DeletePosition(t) ==
    /\ At(t, "delete_position", "body")
    /\ \E id \in RowIds : store' = delete_position(store, id)
    /\ Finish(t, [kind |-> "Unit"])
    /\ UNCHANGED lock
    /\ EngineUnchanged

\* let positions = db.get_positions()? of the three analysis commands
AnalysisGetPositions(t) ==
    /\ calls[t].pc = "body"
    /\ calls[t].op \in {"calculate_earnings_analysis", "calculate_loyalty_tax",
                        "generate_resume_export"}
    /\ \E ps \in get_positions(store) :
           calls' = [calls EXCEPT
                        ![t].positions = ps,
                        ![t].pc = IF calls[t].op = "calculate_loyalty_tax"
                                  THEN "compute" ELSE "get_user_profile"]
    /\ UNCHANGED <<store, lock>>
    /\ EngineUnchanged

\* let profile = db.get_user_profile()?
AnalysisGetUserProfile(t) ==
    /\ calls[t].pc = "get_user_profile"
    /\ calls[t].op \in {"calculate_earnings_analysis", "generate_resume_export"}
    /\ calls' = [calls EXCEPT ![t].profile = get_user_profile(store),
                              ![t].pc = "compute"]
    /\ UNCHANGED <<store, lock>>
    /\ EngineUnchanged

EarningsAnalysisCommand(t) ==
    /\ At(t, "calculate_earnings_analysis", "compute")
    /\ Finish(t, calculate_earnings_analysis(calls[t].positions, calls[t].profile))
    /\ UNCHANGED <<store, lock>>
    /\ EngineUnchanged

LoyaltyTaxCommand(t) ==
    /\ At(t, "calculate_loyalty_tax", "compute")
    /\ \E order \in IterationOrders(EmployerKeys(calls[t].positions)) :
           Finish(t, IF calculate_loyalty_tax_panics(calls[t].positions)
                     THEN Panic
                     ELSE calculate_loyalty_tax(calls[t].positions, order))
    /\ UNCHANGED <<store, lock>>
    /\ EngineUnchanged

ResumeExportCommand(t) ==
    /\ At(t, "generate_resume_export", "compute")
    /\ Finish(t, IF calculate_compensation_summary_panics(calls[t].positions)
                 THEN Panic
                 ELSE generate_resume_export(calls[t].positions, calls[t].profile))
    /\ UNCHANGED <<store, lock>>
    /\ EngineUnchanged

\* let user_profile = db.get_user_profile()?
ExportUserProfile(t) ==
    /\ At(t, "export_all_data", "body")
    /\ calls' = [calls EXCEPT ![t].profile = get_user_profile(store),
                              ![t].pc = "get_positions"]
    /\ UNCHANGED <<store, lock>>
    /\ EngineUnchanged

\* let positions = db.get_positions()? and the DataExport returned
ExportPositions(t) ==
    /\ At(t, "export_all_data", "get_positions")
    /\ \E ps \in get_positions(store) :
           Finish(t, [kind |-> "DataExport",
                      user_profile |-> calls[t].profile,
                      positions |-> ps])
    /\ UNCHANGED <<store, lock>>
    /\ EngineUnchanged

\* if let Some(profile) = data.user_profile { db.save_user_profile(profile) }
ImportProfile(t, data) ==
    /\ At(t, "import_all_data", "body")
    /\ data.user_profile.some => CanSave(data.user_profile.value, "user_profile")
    /\ \A i \in 1..Len(data.positions) : CanSave(data.positions[i], "positions")
    /\ store' = IF data.user_profile.some
                THEN save_user_profile(store, data.user_profile.value)
                ELSE store
    /\ calls' = [calls EXCEPT
                    ![t].result = [kind |-> "ImportResult",
                                   success |-> TRUE,
                                   profile_imported |-> data.user_profile.some,
                                   positions_count |-> 0],
                    ![t].data = data.positions,
                    ![t].pc = "positions"]
    /\ UNCHANGED lock
    /\ EngineUnchanged

\* import_all_data called with a DataExport of the caller's making
ImportUserProfile(t) == \E data \in ImportData : ImportProfile(t, data)

\* one turn of for position in data.positions { db.save_position(position) }
ImportPosition(t) ==
    /\ At(t, "import_all_data", "positions")
    /\ Len(calls[t].data) > 0
    /\ store' = save_position(store, Head(calls[t].data))[1]
    /\ calls' = [calls EXCEPT ![t].data = Tail(@),
                              ![t].result.positions_count = @ + 1]
    /\ UNCHANGED lock
    /\ EngineUnchanged

\* the loop is over: Ok(ImportResult { .. })
ImportDone(t) ==
    /\ At(t, "import_all_data", "positions")
    /\ Len(calls[t].data) = 0
    /\ Goto(t, "return")
    /\ UNCHANGED <<store, lock>>
    /\ EngineUnchanged

SaveCompensationRecord(t) ==
    /\ At(t, "save_compensation_record", "body")
    /\ \E record \in Arguments(StoreRecords) :
           /\ CanSave(record, "compensation_records")
           /\ store' = save_compensation_record(store, record)[1]
           /\ calls' = [calls EXCEPT
                           ![t].pc = "return",
                           ![t].data = <<record>>,
                           ![t].result = save_compensation_record(store, record)[2]]
    /\ UNCHANGED lock
    /\ EngineUnchanged

DeleteCompensationRecord(t) ==
    /\ At(t, "delete_compensation_record", "body")
    /\ \E id \in RowIds : store' = delete_compensation_record(store, id)
    /\ Finish(t, [kind |-> "Unit"])
    /\ UNCHANGED lock
    /\ EngineUnchanged

\* DELETE FROM compensation_records
ClearCompensationRecords(t) ==
    /\ At(t, "clear_all_data", "body")
    /\ store' = [store EXCEPT !.compensation_records = {}]
    /\ Goto(t, "positions")
    /\ UNCHANGED lock
    /\ EngineUnchanged

\* DELETE FROM positions
ClearPositions(t) ==
    /\ At(t, "clear_all_data", "positions")
    /\ store' = [store EXCEPT !.positions = {}]
    /\ Goto(t, "user_profile")
    /\ UNCHANGED lock
    /\ EngineUnchanged

\* DELETE FROM user_profile
ClearUserProfile(t) ==
    /\ At(t, "clear_all_data", "user_profile")
    /\ store' = [store EXCEPT !.user_profile = {}]
    /\ Finish(t, [kind |-> "Unit"])
    /\ UNCHANGED lock
    /\ EngineUnchanged

\* the command returns and its guard is dropped
Return(t) ==
    /\ calls[t].pc = "return"
    /\ lock' = Unlocked
    /\ calls' = [calls EXCEPT ![t] = IdleCall]
    /\ UNCHANGED store
    /\ EngineUnchanged

InitStore ==
    /\ positions = <<>>
    /\ profile = None
    /\ income = Whole(0)
    /\ industry = <<>>
    /\ report = NoReport
    /\ store = EmptyDatabase
    /\ lock = Unlocked
    /\ calls = [t \in Threads |-> IdleCall]
    /\ backup = NoBackup

NextStore ==
    \E t \in Threads :
        \/ Invoke(t)
        \/ Lock(t)
        \/ GetUserProfile(t)
        \/ SaveUserProfile(t)
        \/ GetPositions(t)
        \/ SavePosition(t)
        \/ DeletePosition(t)
        \/ AnalysisGetPositions(t)
        \/ AnalysisGetUserProfile(t)
        \/ EarningsAnalysisCommand(t)
        \/ LoyaltyTaxCommand(t)
        \/ ResumeExportCommand(t)
        \/ ExportUserProfile(t)
        \/ ExportPositions(t)
        \/ ImportUserProfile(t)
        \/ ImportPosition(t)
        \/ ImportDone(t)
        \/ ClearCompensationRecords(t)
        \/ ClearPositions(t)
        \/ ClearUserProfile(t)
        \/ Return(t)

SpecStore == InitStore /\ [][NextStore]_vars

(***************************************************************************)
(* Backup and restore: the front end fills the store, calls                *)
(* export_all_data, keeps the DataExport, calls clear_all_data and then    *)
(* import_all_data with the DataExport it kept, one command at a time      *)
(***************************************************************************)
InvokeRestore(t) ==
    /\ \A u \in Threads : calls[u].pc = "idle"
    /\ \/ /\ backup.phase = "none"
          /\ \E op \in {"save_user_profile", "save_position", "delete_position",
                         "export_all_data"} :
                 calls' = [calls EXCEPT ![t].op = op, ![t].pc = "lock"]
          /\ UNCHANGED backup
       \/ /\ backup.phase = "exported"
          /\ calls' = [calls EXCEPT ![t].op = "clear_all_data", ![t].pc = "lock"]
          /\ backup' = [backup EXCEPT !.phase = "cleared"]
       \/ /\ backup.phase = "cleared"
          /\ calls' = [calls EXCEPT ![t].op = "import_all_data", ![t].pc = "lock"]
          /\ backup' = [backup EXCEPT !.phase = "imported"]
    /\ UNCHANGED <<store, lock>>
    /\ UNCHANGED <<positions, profile, income, industry, report>>

\* export_all_data returns and the front end keeps the DataExport
KeepExport(t) ==
    /\ At(t, "export_all_data", "return")
    /\ backup.phase = "none"
    /\ backup' = [phase |-> "exported", data |-> calls[t].result]
    /\ lock' = Unlocked
    /\ calls' = [calls EXCEPT ![t] = IdleCall]
    /\ UNCHANGED store
    /\ UNCHANGED <<positions, profile, income, industry, report>>

\* import_all_data called with the DataExport that was kept
ImportBackup(t) ==
    /\ backup.phase = "imported"
    /\ ImportProfile(t, backup.data)

NextRestore ==
    \E t \in Threads :
        \/ InvokeRestore(t)
        \/ Lock(t)
        \/ SaveUserProfile(t)
        \/ SavePosition(t)
        \/ DeletePosition(t)
        \/ ExportUserProfile(t)
        \/ ExportPositions(t)
        \/ KeepExport(t)
        \/ ClearCompensationRecords(t)
        \/ ClearPositions(t)
        \/ ClearUserProfile(t)
        \/ ImportBackup(t)
        \/ ImportPosition(t)
        \/ ImportDone(t)
        \/ Return(t)

SpecRestore == InitStore /\ [][NextRestore]_vars

(***************************************************************************)
(* Positions and their compensation records: the commands that write the   *)
(* two tables, run concurrently                                            *)
(***************************************************************************)
InvokeRecords(t) ==
    /\ calls[t].pc = "idle"
    /\ \E op \in {"save_position", "delete_position", "save_compensation_record",
                   "delete_compensation_record", "clear_all_data"} :
           calls' = [calls EXCEPT ![t].op = op, ![t].pc = "lock"]
    /\ UNCHANGED <<store, lock>>
    /\ EngineUnchanged

NextRecords ==
    \E t \in Threads :
        \/ InvokeRecords(t)
        \/ Lock(t)
        \/ SavePosition(t)
        \/ DeletePosition(t)
        \/ SaveCompensationRecord(t)
        \/ DeleteCompensationRecord(t)
        \/ ClearCompensationRecords(t)
        \/ ClearPositions(t)
        \/ ClearUserProfile(t)
        \/ Return(t)

SpecRecords == InitStore /\ [][NextRecords]_vars

(***************************************************************************)
(* Properties of calculate_loyalty_tax                                     *)
(***************************************************************************)
IsLoyalty == report.kind = "LoyaltyTaxAnalysis"

IndicesOf(employer) == {i \in 1..Len(positions) : positions[i].employer_name = employer}

\* the positions of an employer that start latest
LatestStarting(employer) ==
    {i \in IndicesOf(employer) :
        \A j \in IndicesOf(employer) :
            DayNumber(positions[j].start_date) <= DayNumber(positions[i].start_date)}

EarliestStartDay(employer) ==
    LET i == CHOOSE i \in IndicesOf(employer) :
                 \A j \in IndicesOf(employer) :
                     DayNumber(positions[i].start_date) <= DayNumber(positions[j].start_date)
    IN  DayNumber(positions[i].start_date)

\* days from the group's earliest start to the end-or-cutoff of position i
GroupDays(employer, i) ==
    (IF positions[i].end_date.some
     THEN DayNumber(positions[i].end_date.value)
     ELSE DayNumber(Date(2024, 12, 31))) - EarliestStartDay(employer)

\* days / 365.25 <= 2.0
AtMostTwoYears(days) == days * 100 <= 2 * 36525

BlocksOf(employer) ==
    {i \in 1..Len(report.tenure_blocks) : report.tenure_blocks[i].employer_name = employer}

\* C1: calculate_loyalty_tax emits no TenureBlock for an employer group whose
\* tenure (earliest start to the end-or-cutoff of its latest-starting position,
\* in days / 365.25) is <= 2.0 years, and every emitted block has
\* loyalty_tax_impact >= 0.
C1_NoShortTenureBlock ==
    IsLoyalty =>
        /\ \A e \in EmployerKeys(positions) :
               (\A i \in LatestStarting(e) : AtMostTwoYears(GroupDays(e, i)))
                   => BlocksOf(e) = {}
        /\ \A i \in 1..Len(report.tenure_blocks) :
               report.tenure_blocks[i].loyalty_tax_impact.n >= 0

\* one employer with a 730-day tenure and no block beside an employer with a block
C1_Witness ==
    /\ IsLoyalty
    /\ \E e \in EmployerKeys(positions) :
           /\ \A i \in LatestStarting(e) : GroupDays(e, i) = 730
           /\ BlocksOf(e) = {}
    /\ \E i \in 1..Len(report.tenure_blocks) :
           report.tenure_blocks[i].loyalty_tax_impact.n > 0

\* C3: confidence_level is 0.0 exactly when tenure_blocks is empty and 0.75
\* otherwise, also when every emitted block has impact 0; an empty position list
\* yields empty tenure_blocks, cumulative_loyalty_tax 0.0 and confidence_level 0.0.
C3_ConfidenceLevel ==
    IsLoyalty =>
        /\ Len(report.tenure_blocks) = 0 => report.confidence_level = [n |-> 0, d |-> 1]
        /\ Len(report.tenure_blocks) > 0 => report.confidence_level = [n |-> 3, d |-> 4]
        /\ Len(positions) = 0 =>
               /\ report.tenure_blocks = <<>>
               /\ report.cumulative_loyalty_tax = [n |-> 0, d |-> 1]
               /\ report.confidence_level = [n |-> 0, d |-> 1]

\* a block is emitted, every emitted block has impact 0, and confidence is 0.75
C3_Witness ==
    /\ IsLoyalty
    /\ Len(report.tenure_blocks) > 0
    /\ \A i \in 1..Len(report.tenure_blocks) :
           report.tenure_blocks[i].loyalty_tax_impact.n = 0
    /\ report.confidence_level = [n |-> 3, d |-> 4]

\* the scenario of C4: two Permanent Mid positions at one employer, 2019-01-01 to
\* 2021-01-01 and 2021-01-01 open-ended, in either list order
C4_Scenario ==
    /\ IsLoyalty
    /\ Len(positions) = 2
    /\ \E i, j \in 1..2 :
           /\ i # j
           /\ positions[i].start_date = Date(2019, 1, 1)
           /\ positions[i].end_date = Some(Date(2021, 1, 1))
           /\ positions[j].start_date = Date(2021, 1, 1)
           /\ positions[j].end_date = None
    /\ \A i \in 1..2 :
           /\ positions[i].employer_name = "Acme"
           /\ positions[i].employment_type = "Permanent"
           /\ positions[i].seniority_level = "Mid"

\* x rounded to the nearest multiple of 1/scale, as a count of such multiples
Rounded(x, scale) == (2 * x.n * scale + x.d) \div (2 * x.d)

\* what the scenario yields apart from the two rounded figures
C4_Shape ==
    /\ Len(report.tenure_blocks) = 1
    /\ report.tenure_blocks[1].employer_name = "Acme"
    /\ report.tenure_blocks[1].actual_progression = [n |-> 0, d |-> 1]
    /\ report.tenure_blocks[1].market_expected_progression = [n |-> 6, d |-> 1]
    \* impact = 95000 x 0.06 x tenure
    /\ report.tenure_blocks[1].loyalty_tax_impact
           = RMul(RMul(Whole(95000), Rat(6, 100)), report.tenure_blocks[1].years_of_service)

\* C4 as stated: tenure about 5.997 years and impact approximately 34183, the
\* figures taken to the digits given
C4_AsStated ==
    C4_Scenario =>
        /\ C4_Shape
        /\ Rounded(report.tenure_blocks[1].years_of_service, 1000) = 5997
        /\ Rounded(report.tenure_blocks[1].loyalty_tax_impact, 1) = 34183

\* C4 (amended): in the scenario exactly one TenureBlock is produced, with tenure
\* 2191 days / 365.25, about 5.9986 years, actual progression 0%, market-expected
\* progression 6%, and loyalty_tax_impact = 95000 x 0.06 x tenure, about 34192.
C4_Amended ==
    C4_Scenario =>
        /\ C4_Shape
        /\ report.tenure_blocks[1].years_of_service = Rat(2191 * 100, 36525)
        /\ Rounded(report.tenure_blocks[1].years_of_service, 10000) = 59986
        /\ Rounded(report.tenure_blocks[1].loyalty_tax_impact, 1) = 34192

C4_Witness == C4_Scenario /\ Len(report.tenure_blocks) = 1

(***************************************************************************)
(* Totality of the three entry points                                      *)
(***************************************************************************)
\* C2: calculate_earnings_analysis, calculate_loyalty_tax and
\* generate_resume_export return a report for every position list (the empty
\* list included) and every profile (None included); none of them panics.
C2_Total ==
    /\ report.kind \in {"None", "income_percentile", "EarningsAnalysis",
                        "LoyaltyTaxAnalysis", "ResumeExport"}
    /\ report.kind # "Panic"

\* the resume export of the empty list with no profile has returned
C2_Witness ==
    /\ Len(positions) = 0
    /\ profile = None
    /\ report.kind = "ResumeExport"

(***************************************************************************)
(* Properties of the base compensation estimator                           *)
(***************************************************************************)
\* the anchors and loadings as the specification lists them, loadings in hundredths
AnchorTable ==
    [Entry |-> 60000, Junior |-> 75000, Mid |-> 95000, Senior |-> 120000,
     Lead |-> 140000, Manager |-> 130000, Director |-> 180000, Executive |-> 250000]

LoadingTable == [Permanent |-> 100, Contract |-> 120, Casual |-> 125]

\* C5: base_salary_estimate = seniority anchor x employment-type loading for
\* every seniority level and employment type; Permanent Entry is exactly 60000.
C5_BaseSalary ==
    report.kind = "base_salary_estimate" =>
        LET p == positions[1]
        IN  /\ report.value.n * 100
                   = AnchorTable[p.seniority_level] * LoadingTable[p.employment_type]
                         * report.value.d
            /\ (p.employment_type = "Permanent" /\ p.seniority_level = "Entry")
                   => report.value = [n |-> 60000, d |-> 1]

\* the estimate of a Casual Executive position: 250000 x 1.25
C5_Witness ==
    /\ report.kind = "base_salary_estimate"
    /\ positions[1].employment_type = "Casual"
    /\ positions[1].seniority_level = "Executive"
    /\ report.value = [n |-> 312500, d |-> 1]

\* the seniority base multipliers, in hundredths
BaseMultiplierTable ==
    [Entry |-> 105, Junior |-> 110, Mid |-> 115, Senior |-> 120,
     Lead |-> 125, Manager |-> 110, Director |-> 105, Executive |-> 105]

\* C6: the overtime multiplier is the product of the seniority base multiplier
\* (in 1.05..1.25), the industry adjustment and the personal overtime-appetite
\* adjustment; with no profile the last two are 1.0 and the multiplier is the
\* seniority base multiplier alone (Senior gives 1.20).
C6_OvertimeMultiplier ==
    report.kind = "overtime_multiplier" =>
        LET level == positions[1].seniority_level
            base == Rat(BaseMultiplierTable[level], 100)
        IN  /\ 105 <= BaseMultiplierTable[level] /\ BaseMultiplierTable[level] <= 125
            /\ report.value
                   = RMul(RMul(base, IndustryAdjustment(profile)), PersonalAdjustment(profile))
            /\ profile = None =>
                   /\ IndustryAdjustment(profile) = [n |-> 1, d |-> 1]
                   /\ PersonalAdjustment(profile) = [n |-> 1, d |-> 1]
                   /\ report.value = base
                   /\ level = "Senior" => report.value = [n |-> 6, d |-> 5]

\* a profile whose two adjustments both differ from 1.0
C6_Witness ==
    /\ report.kind = "overtime_multiplier"
    /\ profile.some
    /\ positions[1].seniority_level = "Senior"
    /\ IndustryAdjustment(profile) = [n |-> 13, d |-> 10]
    /\ PersonalAdjustment(profile) = [n |-> 7, d |-> 5]
    /\ report.value = [n |-> 273, d |-> 125]

(***************************************************************************)
(* Properties of the income percentile                                     *)
(***************************************************************************)
IsPercentile == report.kind = "income_percentile"

\* inc <= median x k/4, with the median a whole number of dollars
AtMostQuarters(inc, median, k) == 4 * inc.n <= k * median * inc.d

EqualsQuarters(inc, median, k) == 4 * inc.n = k * median * inc.d

\* the band of an income against a median, as the specification gives it
Band(inc, median) ==
    IF AtMostQuarters(inc, median, 3) THEN 25
    ELSE IF AtMostQuarters(inc, median, 4) THEN 50
    ELSE IF AtMostQuarters(inc, median, 5) THEN 75
    ELSE 90

MedianOfCall == calculate_industry_median(industry).n

\* C7 as stated: exactly at the 0.75, 1.0 and 1.25 boundaries the higher bucket
\* is chosen, and every value above 1.25 x median maps to 90, never higher.
C7_AsStated ==
    IsPercentile =>
        /\ EqualsQuarters(income, MedianOfCall, 3) => report.value = [n |-> 50, d |-> 1]
        /\ EqualsQuarters(income, MedianOfCall, 4) => report.value = [n |-> 75, d |-> 1]
        /\ EqualsQuarters(income, MedianOfCall, 5) => report.value = [n |-> 90, d |-> 1]
        /\ ~AtMostQuarters(income, MedianOfCall, 5) => report.value = [n |-> 90, d |-> 1]
        /\ report.value.n <= 90 * report.value.d

\* C7 (amended): exactly at the 0.75, 1.0 and 1.25 boundaries the lower bucket
\* is chosen (25, 50 and 75: the comparisons are <=), and every value above
\* 1.25 x median maps to 90, never higher.
C7_Amended ==
    IsPercentile =>
        /\ EqualsQuarters(income, MedianOfCall, 3) => report.value = [n |-> 25, d |-> 1]
        /\ EqualsQuarters(income, MedianOfCall, 4) => report.value = [n |-> 50, d |-> 1]
        /\ EqualsQuarters(income, MedianOfCall, 5) => report.value = [n |-> 75, d |-> 1]
        /\ ~AtMostQuarters(income, MedianOfCall, 5) => report.value = [n |-> 90, d |-> 1]
        /\ report.value.n <= 90 * report.value.d

\* an income exactly at 1.25 x median, classified 75
C7_Witness ==
    /\ IsPercentile
    /\ EqualsQuarters(income, MedianOfCall, 5)
    /\ report.value = [n |-> 75, d |-> 1]

\* the industry texts that match no keyword of the median table
Unmatched(text) ==
    LET s == to_lowercase(text)
    IN  \A kw \in {kw_mining, kw_it, kw_technology, kw_engineering, kw_construction,
                   kw_healthcare, kw_education, kw_finance} : ~contains(s, kw)

\* the median the specification gives for a text: 90000 when no keyword matches
MedianFor(text) ==
    IF Unmatched(text) THEN 90000 ELSE calculate_industry_median(text).n

\* C8: calculate_income_percentile returns 25 if income <= 0.75 x median, else 50
\* if income <= median, else 75 if income <= 1.25 x median, else 90, with the
\* median 90000 for unmatched industries; with no profile the analysis
\* classifies against 90000; the result is one of 25, 50, 75, 90.
C8_PercentileBands ==
    /\ IsPercentile =>
           /\ report.value = [n |-> Band(income, MedianFor(industry)), d |-> 1]
           /\ report.value.n \in {25, 50, 75, 90}
    /\ report.kind = "EarningsAnalysis" =>
           /\ report.income_percentile
                  = [n |-> Band(report.current_total_compensation,
                                IF profile.some THEN MedianFor(profile.value.industry)
                                ELSE 90000),
                     d |-> 1]
           /\ report.income_percentile.n \in {25, 50, 75, 90}

\* an analysis with no profile whose current total lies above 1.25 x 90000
C8_Witness ==
    /\ report.kind = "EarningsAnalysis"
    /\ profile = None
    /\ Len(positions) > 0
    /\ ~AtMostQuarters(report.current_total_compensation, 90000, 5)
    /\ report.income_percentile = [n |-> 90, d |-> 1]

(***************************************************************************)
(* Properties of the insights                                              *)
(***************************************************************************)
IsEarnings == report.kind = "EarningsAnalysis"

HasInsight(category) ==
    \E i \in 1..Len(report.insights) : report.insights[i].category = category

\* the overtime multiplier of the Base Compensation Estimator exceeds 1.2
ExceedsOvertimeThreshold(p, prof) ==
    LET m == estimate_overtime_multiplier(p, prof)
    IN  10 * m.n > 12 * m.d

\* C9: with a profile present an Overtime-Heavy insight (confidence 0.85) is
\* emitted if the overtime multiplier (seniority x industry x personal-appetite
\* factor) of any position exceeds 1.2; with no profile no insight is emitted.
C9_AsStated ==
    IsEarnings =>
        /\ (profile.some
              /\ \E i \in 1..Len(positions) : ExceedsOvertimeThreshold(positions[i], profile))
               => \E i \in 1..Len(report.insights) :
                      /\ report.insights[i].category = "OvertimeHeavy"
                      /\ report.insights[i].confidence_level = [n |-> 17, d |-> 20]
        /\ ~profile.some => report.insights = <<>>

\* C10: with a profile present an Underpaid insight (confidence 0.75) is emitted
\* if the income percentile is below 25, an Overpaid insight (confidence 0.75) if
\* it is above 75, and no market-comparison insight if it lies in [25, 75];
\* Underpaid and Overpaid are never both emitted.
C10_MarketInsight ==
    (IsEarnings /\ profile.some) =>
        LET pct == report.income_percentile
        IN  /\ HasInsight("Underpaid") <=> pct.n < 25 * pct.d
            /\ HasInsight("Overpaid") <=> pct.n > 75 * pct.d
            /\ (25 * pct.d <= pct.n /\ pct.n <= 75 * pct.d)
                   => ~HasInsight("Underpaid") /\ ~HasInsight("Overpaid")
            /\ ~(HasInsight("Underpaid") /\ HasInsight("Overpaid"))
            /\ \A i \in 1..Len(report.insights) :
                   report.insights[i].category \in {"Underpaid", "Overpaid"}
                       => report.insights[i].confidence_level = [n |-> 3, d |-> 4]

\* a profile is present, the percentile is 90 and the Overpaid insight is emitted
C10_Witness ==
    /\ IsEarnings
    /\ profile.some
    /\ report.income_percentile = [n |-> 90, d |-> 1]
    /\ HasInsight("Overpaid")

(***************************************************************************)
(* Properties of the current position                                      *)
(***************************************************************************)
\* C11: calculate_earnings_analysis takes the first element of the input list as
\* the current position regardless of dates: current_total_compensation and
\* current_effective_hourly_rate equal the actual_annual and
\* effective_hourly_rate of the first snapshot in earnings_over_time (the
\* snapshot of the first list element), and both are 0 when the list is empty.
C11_CurrentIsFirst ==
    IsEarnings =>
        /\ Len(report.earnings_over_time) = Len(positions)
        /\ Len(positions) > 0 =>
               /\ report.earnings_over_time[1].date = positions[1].start_date
               /\ report.earnings_over_time[1].actual_annual
                      = RMul(base_salary_estimate(positions[1]),
                             estimate_overtime_multiplier(positions[1], profile))
               /\ report.current_total_compensation
                      = report.earnings_over_time[1].actual_annual
               /\ report.current_effective_hourly_rate
                      = report.earnings_over_time[1].effective_hourly_rate
        /\ Len(positions) = 0 =>
               /\ report.current_total_compensation = [n |-> 0, d |-> 1]
               /\ report.current_effective_hourly_rate = [n |-> 0, d |-> 1]

\* the first element ended in 2022, the second is open-ended and started later,
\* and the current figures are those of the first, not of the second
C11_Witness ==
    /\ IsEarnings
    /\ Len(positions) = 2
    /\ positions[1].end_date.some
    /\ ~positions[2].end_date.some
    /\ DayNumber(positions[1].start_date) < DayNumber(positions[2].start_date)
    /\ report.current_total_compensation = report.earnings_over_time[1].actual_annual
    /\ report.current_total_compensation # report.earnings_over_time[2].actual_annual
    /\ report.current_effective_hourly_rate
           # report.earnings_over_time[2].effective_hourly_rate

(***************************************************************************)
(* Properties of the resume export                                         *)
(***************************************************************************)
IsResume == report.kind = "ResumeExport"

\* days from start_date to end_date-or-2024-12-31 of position i
PositionDays(i) ==
    (IF positions[i].end_date.some
     THEN DayNumber(positions[i].end_date.value)
     ELSE DayNumber(Date(2024, 12, 31))) - DayNumber(positions[i].start_date)

\* the sum of PositionDays over the first k positions
RECURSIVE SumOfDays(_)
SumOfDays(k) == IF k = 0 THEN 0 ELSE SumOfDays(k - 1) + PositionDays(k)

\* x = days / 365.25
IsYearsOf(x, days) == x.n * 36525 = days * 100 * x.d

\* C12 as stated: for every position list and every profile (present or None)
\* experience_years is the sum over all positions of (end_date-or-2024-12-31 -
\* start_date) in days / 365.25, overlaps counted twice, and seniority_level is
\* the seniority of the first position in the list.
C12_AsStated ==
    IsResume =>
        /\ IsYearsOf(report.profile_summary.experience_years, SumOfDays(Len(positions)))
        /\ Len(positions) > 0 =>
               report.profile_summary.seniority_level = positions[1].seniority_level

\* C12 (amended): for every position list and every present profile
\* experience_years is the sum over all positions of (end_date-or-2024-12-31 -
\* start_date) in days / 365.25, overlaps counted twice, and seniority_level is
\* the seniority of the first position in the list; with profile None
\* experience_years is 0.0 and seniority_level is Entry whatever the positions.
C12_Amended ==
    IsResume =>
        /\ profile.some =>
               /\ IsYearsOf(report.profile_summary.experience_years,
                            SumOfDays(Len(positions)))
               /\ Len(positions) > 0 =>
                      report.profile_summary.seniority_level
                          = positions[1].seniority_level
        /\ ~profile.some =>
               /\ report.profile_summary.experience_years = [n |-> 0, d |-> 1]
               /\ report.profile_summary.seniority_level = "Entry"

\* a profile and two overlapping positions: 2020-01-15 to 2022-04-15 (821 days)
\* and 2021-01-01 open-ended (1460 days), the first of them not Entry
C12_Witness ==
    /\ IsResume
    /\ profile.some
    /\ Len(positions) = 2
    /\ {PositionDays(1), PositionDays(2)} = {821, 1460}
    /\ positions[1].seniority_level = "Senior"
    /\ positions[2].seniority_level = "Entry"
    /\ IsYearsOf(report.profile_summary.experience_years, 2281)
    /\ report.profile_summary.seniority_level = "Senior"

\* the base of position i from the anchors and loadings the specification lists
BaseOf(i) ==
    Rat(AnchorTable[positions[i].seniority_level]
            * LoadingTable[positions[i].employment_type], 100)

\* total experience years of the list: the sum of days / 365.25
ExperienceYears == Rat(SumOfDays(Len(positions)) * 100, 36525)

\* ((first list base - last list base) / divisor) / experience years x 100, and 0
\* for a single-position history, zero experience years or a zero divisor
IncreaseOver(divisor) ==
    IF Len(positions) <= 1 \/ SumOfDays(Len(positions)) <= 0 \/ divisor.n <= 0
    THEN [n |-> 0, d |-> 1]
    ELSE RMul(RDiv(RDiv(RSub(BaseOf(1), BaseOf(Len(positions))), divisor),
                   ExperienceYears),
              Whole(100))

\* C13 as stated: average_annual_increase = ((first list position's base - last
\* list position's base) / first list position's base) / total experience years
\* x 100, and 0 for a single-position history, zero experience years or a zero base.
C13_AsStated ==
    (IsResume /\ Len(positions) > 0) =>
        report.compensation_summary.average_annual_increase = IncreaseOver(BaseOf(1))

\* C13 (amended): average_annual_increase = ((first list position's base - last
\* list position's base) / last list position's base) / total experience years
\* x 100, and 0 for a single-position history, zero experience years or a zero base.
C13_Amended ==
    (IsResume /\ Len(positions) > 0) =>
        report.compensation_summary.average_annual_increase
            = IncreaseOver(BaseOf(Len(positions)))

\* Senior (120000) listed before Entry (60000) over 821 + 1460 days: the
\* increase is (60000 / 60000) / (2281 / 365.25) x 100
C13_Witness ==
    /\ IsResume
    /\ Len(positions) = 2
    /\ BaseOf(1) = [n |-> 120000, d |-> 1]
    /\ BaseOf(2) = [n |-> 60000, d |-> 1]
    /\ SumOfDays(2) = 2281
    /\ report.compensation_summary.average_annual_increase = Rat(36525, 2281)

\* two positions of different bases and no experience days: the increase is 0
C13_ZeroYears ==
    /\ IsResume
    /\ Len(positions) = 2
    /\ BaseOf(1) # BaseOf(2)
    /\ SumOfDays(2) = 0
    /\ report.compensation_summary.average_annual_increase = [n |-> 0, d |-> 1]

\* the calendar month difference of an ended position, days ignored
MonthDifference(i) ==
    12 * (positions[i].end_date.value.year - positions[i].start_date.year)
        + (positions[i].end_date.value.month - positions[i].start_date.month)

\* 'Yy Rm' when y > 0 and r > 0, 'Yy' when y > 0 and r = 0, 'Rm' when y = 0
DurationText(m) ==
    LET y == m \div 12
        r == m % 12
    IN  IF y > 0 /\ r > 0 THEN ToString(y) \o "y " \o ToString(r) \o "m"
        ELSE IF y > 0 THEN ToString(y) \o "y"
        ELSE ToString(r) \o "m"

SpanOf(i) == <<positions[i].start_date, positions[i].end_date>>

\* C14: for an ended position with start_date <= end_date the resume duration
\* string depends only on the calendar month difference m = 12 x (end year -
\* start year) + (end month - start month), ignoring days: with y = m div 12 and
\* r = m mod 12 it is 'Yy Rm' when y > 0 and r > 0, 'Yy' when y > 0 and r = 0,
\* and 'Rm' when y = 0 (2020-01-15 to 2022-04-15 gives '2y 3m', to 2020-06-15
\* gives '5m', to 2022-01-15 gives '2y').
C14_Duration ==
    IsResume =>
        \A i \in 1..Len(positions) :
            (positions[i].end_date.some
               /\ DayNumber(positions[i].start_date)
                      <= DayNumber(positions[i].end_date.value)) =>
                LET text == report.career_timeline[i].duration
                IN  /\ text = DurationText(MonthDifference(i))
                    /\ SpanOf(i) = <<Date(2020, 1, 15), Some(Date(2022, 4, 15))>>
                           => text = "2y 3m"
                    /\ SpanOf(i) = <<Date(2020, 1, 15), Some(Date(2020, 6, 15))>>
                           => text = "5m"
                    /\ SpanOf(i) = <<Date(2020, 1, 15), Some(Date(2022, 1, 15))>>
                           => text = "2y"

\* the first example beside a span of one day across a month end, which reads '1m'
C14_Witness ==
    /\ IsResume
    /\ Len(positions) = 2
    /\ SpanOf(1) = <<Date(2020, 1, 15), Some(Date(2022, 4, 15))>>
    /\ SpanOf(2) = <<Date(2020, 1, 31), Some(Date(2020, 2, 1))>>
    /\ report.career_timeline[1].duration = "2y 3m"
    /\ report.career_timeline[2].duration = "1m"

\* C15: generate_resume_export with profile None degrades to defaults instead of
\* failing: profile_summary has name 'Unknown' and age 0, and target_preferences
\* is the neutral set (Permanent, no FIFO, no travel, Moderate overtime, both
\* consents false); with an empty position list it also has experience_years 0.0
\* and empty career_timeline, achievements and skills_and_tools.
C15_Defaults ==
    ~profile.some =>
        /\ report.kind # "Panic"
        /\ IsResume =>
               /\ report.profile_summary.name = "Unknown"
               /\ report.profile_summary.age = 0
               /\ report.target_preferences.employment_type_preference = "Permanent"
               /\ report.target_preferences.fifo_tolerance = "None"
               /\ report.target_preferences.travel_tolerance = "None"
               /\ report.target_preferences.overtime_appetite = "Moderate"
               /\ ~report.target_preferences.privacy_acknowledged
               /\ ~report.target_preferences.disclaimer_acknowledged
               /\ Len(positions) = 0 =>
                      /\ report.profile_summary.experience_years = [n |-> 0, d |-> 1]
                      /\ report.career_timeline = <<>>
                      /\ report.achievements = <<>>
                      /\ report.skills_and_tools = <<>>

\* the export of the empty list with no profile carries the neutral preferences
C15_Witness ==
    /\ IsResume
    /\ ~profile.some
    /\ Len(positions) = 0
    /\ report.profile_summary.name = "Unknown"
    /\ report.target_preferences.overtime_appetite = "Moderate"
    /\ report.career_timeline = <<>>

(***************************************************************************)
(* Properties of the store and of the commands                             *)
(***************************************************************************)
\* C16: after any sequence of save_user_profile, import_all_data and
\* clear_all_data operations the store holds at most one user profile.
C16_AsStated == Cardinality(store.user_profile) <= 1

\* thread t is past state.db.lock() and has not returned
InCommandBody(t) == calls[t].pc \notin {"idle", "lock"}

\* in every state: a thread inside a command body holds the lock (so no two
\* threads are inside a body at once), and what an analysis command has read so
\* far is still what the store holds
C17_State ==
    \A t \in Threads :
        /\ InCommandBody(t) => lock = t
        /\ calls[t].pc \in {"get_user_profile", "compute"}
               => calls[t].positions \in get_positions(store)
        /\ (calls[t].pc = "compute" /\ calls[t].op # "calculate_loyalty_tax")
               => calls[t].profile = get_user_profile(store)

\* in every step: a thread that moves inside a command body holds the lock, the
\* store changes only in a step of the thread holding the lock, and the lock is
\* given up only by the return of the command holding it
C17_Step ==
    /\ \A t \in Threads :
           (InCommandBody(t) /\ calls'[t] # calls[t]) => lock = t
    /\ store' # store =>
           \E t \in Threads :
               /\ lock = t
               /\ calls'[t] # calls[t]
               /\ \A u \in Threads \ {t} : calls'[u] = calls[u]
    /\ (lock # Unlocked /\ lock' # lock) =>
           /\ lock' = Unlocked
           /\ calls[lock].pc = "return"
           /\ calls'[lock].pc = "idle"

\* C17: every command acquires the single database mutex before touching the
\* store and holds it until it returns, so the store operations of two
\* concurrently invoked commands never interleave; calculate_earnings_analysis
\* and generate_resume_export read positions and profile under one lock
\* acquisition, so no concurrent save or delete takes effect between the reads.
C17_Serialized == []C17_State /\ [][C17_Step]_vars

\* an analysis has read a stored position and not yet the profile, while a
\* save_position invoked on the other thread waits for the lock
C17_Witness ==
    \E t, u \in Threads :
        /\ At(t, "calculate_earnings_analysis", "get_user_profile")
        /\ Len(calls[t].positions) > 0
        /\ At(u, "save_position", "lock")
        /\ lock = t

(***************************************************************************)
(* Properties of the loyalty-tax fields                                    *)
(***************************************************************************)
\* C18: for every input, loyalty_tax_annual and loyalty_tax_cumulative returned
\* by calculate_earnings_analysis are 0, and annual_loyalty_tax returned by
\* calculate_loyalty_tax is empty.
C18_AlwaysZero ==
    /\ IsEarnings =>
           /\ report.loyalty_tax_annual = [n |-> 0, d |-> 1]
           /\ report.loyalty_tax_cumulative = [n |-> 0, d |-> 1]
    /\ IsLoyalty => report.annual_loyalty_tax = <<>>

\* a loyalty analysis with a block of positive impact and no yearly entries
C18_Witness ==
    /\ IsLoyalty
    /\ Len(report.tenure_blocks) > 0
    /\ report.cumulative_loyalty_tax.n > 0
    /\ report.annual_loyalty_tax = <<>>

\* the market growth rates per seniority, in percent per year
GrowthTable ==
    [Entry |-> 4, Junior |-> 5, Mid |-> 6, Senior |-> 7,
     Lead |-> 8, Manager |-> 8, Director |-> 9, Executive |-> 10]

\* first of an employer's group by start_date ascending: of the positions that
\* start earliest, the one that comes first in the list
FirstOf(employer) ==
    CHOOSE i \in IndicesOf(employer) :
        \A j \in IndicesOf(employer) :
            \/ DayNumber(positions[i].start_date) < DayNumber(positions[j].start_date)
            \/ DayNumber(positions[i].start_date) = DayNumber(positions[j].start_date)
                   /\ i <= j

\* last of the group: of the positions that start latest, the one that comes
\* last in the list
LastOf(employer) ==
    CHOOSE i \in LatestStarting(employer) : \A j \in LatestStarting(employer) : j <= i

\* the block the specification gives for a qualifying group
ExpectedBlock(employer) ==
    LET first_base == BaseOf(FirstOf(employer))
        last_base == BaseOf(LastOf(employer))
        years == Rat(GroupDays(employer, LastOf(employer)) * 100, 36525)
        actual == IF first_base.n = 0 THEN Whole(0)
                  ELSE RDiv(RDiv(RSub(last_base, first_base), first_base), years)
        market == Rat(GrowthTable[positions[LastOf(employer)].seniority_level], 100)
        rate == RSub(market, actual)
    IN  [actual_progression |-> RMul(actual, Whole(100)),
         market_expected_progression |-> RMul(market, Whole(100)),
         loyalty_tax_impact |->
             IF rate.n > 0 THEN RMul(RMul(last_base, rate), years) ELSE Whole(0)]

\* C19: for every qualifying employer group, with first and last taken by
\* start_date ascending, the emitted TenureBlock has actual progression = ((last
\* base - first base) / first base) / tenure_years (0 if first base is 0),
\* market-expected rate = the growth-table value for the seniority of the last
\* position, and loyalty_tax_impact = last base x max(0, market-expected -
\* actual) x tenure_years; both rates are reported multiplied by 100.
C19_BlockFigures ==
    IsLoyalty =>
        \A k \in 1..Len(report.tenure_blocks) :
            LET b == report.tenure_blocks[k]
                x == ExpectedBlock(b.employer_name)
            IN  /\ b.actual_progression = x.actual_progression
                /\ b.market_expected_progression = x.market_expected_progression
                /\ b.loyalty_tax_impact = x.loyalty_tax_impact

\* a promotion from Mid to Senior that stays below the market rate: actual
\* progression above 0 and below 7 percent, and a positive impact
C19_Witness ==
    /\ IsLoyalty
    /\ \E k \in 1..Len(report.tenure_blocks) :
           LET b == report.tenure_blocks[k]
           IN  /\ BaseOf(FirstOf(b.employer_name)) = [n |-> 95000, d |-> 1]
               /\ BaseOf(LastOf(b.employer_name)) = [n |-> 120000, d |-> 1]
               /\ b.actual_progression.n > 0
               /\ b.actual_progression.n < 7 * b.actual_progression.d
               /\ b.market_expected_progression = [n |-> 7, d |-> 1]
               /\ b.loyalty_tax_impact.n > 0

\* the group of an employer name has a tenure above 2.0 years
Qualifies(employer) == ~AtMostTwoYears(GroupDays(employer, LastOf(employer)))

\* C20: calculate_loyalty_tax groups positions by exact, case-sensitive employer
\* name: it emits at most one TenureBlock per distinct employer name, exactly
\* one for each group whose tenure exceeds 2.0 years, and names differing only
\* in letter case form separate groups.
C20_Grouping ==
    IsLoyalty =>
        /\ \A k \in 1..Len(report.tenure_blocks) :
               report.tenure_blocks[k].employer_name \in EmployerKeys(positions)
        /\ \A e \in EmployerKeys(positions) :
               /\ Cardinality(BlocksOf(e)) <= 1
               /\ Qualifies(e) <=> Cardinality(BlocksOf(e)) = 1
               /\ \A k \in BlocksOf(e) :
                      /\ DayNumber(report.tenure_blocks[k].start_date)
                             = EarliestStartDay(e)
                      /\ IsYearsOf(report.tenure_blocks[k].years_of_service,
                                   GroupDays(e, LastOf(e)))

\* "Acme" ended after 731 days and gets a block; "acme" started in 2023 and
\* gets none, although taken together the two would span six years
C20_Witness ==
    /\ IsLoyalty
    /\ EmployerKeys(positions) = {"Acme", "acme"}
    /\ GroupDays("Acme", LastOf("Acme")) = 731
    /\ GroupDays("acme", LastOf("acme")) = 730
    /\ Cardinality(BlocksOf("Acme")) = 1
    /\ BlocksOf("acme") = {}

\* both names qualify and each gets a block of its own
C20_TwoBlocks ==
    /\ IsLoyalty
    /\ Len(report.tenure_blocks) = 2
    /\ Cardinality(BlocksOf("Acme")) = 1
    /\ Cardinality(BlocksOf("acme")) = 1

\* the sum of loyalty_tax_impact over the first k emitted blocks
RECURSIVE ImpactSum(_)
ImpactSum(k) ==
    IF k = 0 THEN [n |-> 0, d |-> 1]
    ELSE RAdd(ImpactSum(k - 1), report.tenure_blocks[k].loyalty_tax_impact)

\* C21: in every result of calculate_loyalty_tax, cumulative_loyalty_tax equals
\* the sum of loyalty_tax_impact over all emitted tenure_blocks, and is
\* therefore >= 0.
C21_CumulativeIsSum ==
    IsLoyalty =>
        /\ report.cumulative_loyalty_tax = ImpactSum(Len(report.tenure_blocks))
        /\ report.cumulative_loyalty_tax.n >= 0
        /\ report.cumulative_loyalty_tax.d > 0

\* two blocks of positive impact, the cumulative tax above either of them
C21_Witness ==
    /\ IsLoyalty
    /\ Len(report.tenure_blocks) = 2
    /\ \A k \in 1..2 :
           /\ report.tenure_blocks[k].loyalty_tax_impact.n > 0
           /\ RLt(report.tenure_blocks[k].loyalty_tax_impact,
                  report.cumulative_loyalty_tax)

(***************************************************************************)
(* Properties of the earnings snapshots                                    *)
(***************************************************************************)
\* the hours factors as the specification lists them, in tenths
HoursFactorTable == [Permanent |-> 10, Contract |-> 11, Casual |-> 8]

\* 38 hours x 52 weeks x hours factor of position i
AnnualHoursOf(i) ==
    Rat(38 * 52 * HoursFactorTable[positions[i].employment_type], 10)

Mentions(kw) == contains(to_lowercase(profile.value.industry), kw)

\* the industry adjustment in hundredths: first match wins in the order mining,
\* construction, engineering, it or technology
AdjustmentFor ==
    IF ~profile.some THEN 100
    ELSE IF Mentions(kw_mining) THEN 130
    ELSE IF Mentions(kw_construction) THEN 125
    ELSE IF Mentions(kw_engineering) THEN 120
    ELSE IF Mentions(kw_it) \/ Mentions(kw_technology) THEN 115
    ELSE 100

IndustryIs(text) == profile.some /\ profile.value.industry = text

\* C23: the industry adjustment of the overtime multiplier is chosen by
\* case-insensitive substring match on the profile industry text with first
\* match winning in this order: contains 'mining' gives 1.30, else
\* 'construction' 1.25, else 'engineering' 1.20, else 'it' or 'technology' 1.15,
\* else 1.0; an absent profile gives 1.0.
C23_IndustryAdjustment ==
    report.kind = "overtime_multiplier" =>
        LET base == Rat(BaseMultiplierTable[positions[1].seniority_level], 100)
            factor == RDiv(RDiv(report.value, base), PersonalAdjustment(profile))
        IN  /\ factor = Rat(AdjustmentFor, 100)
            /\ ~profile.some => factor = [n |-> 1, d |-> 1]
            /\ IndustryIs(<<"M", "I", "N", "I", "N", "G">>) => factor = [n |-> 13, d |-> 10]
            /\ IndustryIs(<<"I", "T", " ", "E", "n", "g", "i", "n", "e", "e", "r", "i", "n", "g">>)
                   => factor = [n |-> 6, d |-> 5]
            /\ IndustryIs(<<"H", "o", "s", "p", "i", "t", "a", "l", "i", "t", "y">>)
                   => factor = [n |-> 23, d |-> 20]
            /\ IndustryIs(<<"R", "e", "t", "a", "i", "l">>) => factor = [n |-> 1, d |-> 1]

\* a text that names construction before mining: mining wins
C23_Witness ==
    /\ report.kind = "overtime_multiplier"
    /\ profile.some
    /\ Mentions(kw_construction)
    /\ Mentions(kw_mining)
    /\ profile.value.career_preferences.overtime_appetite = "Minimal"
    /\ positions[1].seniority_level = "Entry"
    /\ report.value = Rat(105 * 130, 10000)

\* a text that names both engineering and it: engineering wins
C23_EngineeringBeforeIt ==
    /\ report.kind = "overtime_multiplier"
    /\ profile.some
    /\ Mentions(kw_engineering)
    /\ Mentions(kw_it)
    /\ ~Mentions(kw_mining)
    /\ ~Mentions(kw_construction)
    /\ profile.value.career_preferences.overtime_appetite = "Minimal"
    /\ positions[1].seniority_level = "Entry"
    /\ report.value = Rat(105 * 120, 10000)

(***************************************************************************)
(* Properties of the positions the commands hand to the engine             *)
(***************************************************************************)
\* thread t holds the list that calculate_earnings_analysis or
\* generate_resume_export is about to be applied to
HoldsPositions(t) ==
    /\ calls[t].op \in {"calculate_earnings_analysis", "generate_resume_export"}
    /\ calls[t].pc \in {"get_user_profile", "compute"}

\* p is a row of the positions table
IsStored(p) ==
    /\ p.id.some
    /\ [id |-> p.id.value, data |-> Columns(p)] \in store.positions

\* C24: the command layer always supplies positions ordered by start_date
\* descending: after any sequence of save_position and delete_position
\* operations, the position that calculate_earnings_analysis and
\* generate_resume_export treat as current (index 0) is a stored position with
\* the maximum start_date, and the last list element is one with the minimum
\* start_date.
C24_NewestFirst ==
    \A t \in Threads :
        HoldsPositions(t) =>
            LET ps == calls[t].positions
            IN  /\ Len(ps) = Cardinality(store.positions)
                /\ \A i \in 1..Len(ps) : IsStored(ps[i])
                /\ \A i, j \in 1..Len(ps) :
                       i < j => DayNumber(ps[i].start_date) >= DayNumber(ps[j].start_date)
                /\ Len(ps) > 0 =>
                       \A r \in store.positions :
                           /\ DayNumber(r.data.start_date) <= DayNumber(ps[1].start_date)
                           /\ DayNumber(r.data.start_date) >= DayNumber(ps[Len(ps)].start_date)

\* the row saved second starts later and is handed over first
C24_Witness ==
    \E t \in Threads :
        /\ At(t, "calculate_earnings_analysis", "compute")
        /\ Len(calls[t].positions) = 2
        /\ calls[t].positions[1].id = Some(2)
        /\ calls[t].positions[2].id = Some(1)
        /\ DayNumber(calls[t].positions[1].start_date)
               > DayNumber(calls[t].positions[2].start_date)

\* the row saved first starts later and stays first
C24_RowOrderKept ==
    \E t \in Threads :
        /\ At(t, "generate_resume_export", "compute")
        /\ Len(calls[t].positions) = 2
        /\ calls[t].positions[1].id = Some(1)
        /\ DayNumber(calls[t].positions[1].start_date)
               > DayNumber(calls[t].positions[2].start_date)

(***************************************************************************)
(* calculate_loyalty_tax and the order of its input                        *)
(***************************************************************************)
\* the lists that hold the elements of ps in another order
ListPermutations(ps) ==
    {[i \in 1..Len(ps) |-> ps[f[i]]] : f \in Permutations(1..Len(ps))}

BlockSet(analysis) == {analysis.tenure_blocks[i] : i \in 1..Len(analysis.tenure_blocks)}

\* the same set of tenure blocks and the same cumulative_loyalty_tax
SameAnalysis(a, b) ==
    /\ BlockSet(a) = BlockSet(b)
    /\ a.cumulative_loyalty_tax = b.cumulative_loyalty_tax

\* every permutation of the input gives the analysis that was reported
PermutationInvariant ==
    \A qs \in ListPermutations(positions) :
        \A order \in IterationOrders(EmployerKeys(qs)) :
            SameAnalysis(report, calculate_loyalty_tax(qs, order))

\* two positions of one employer share a start_date
SharedStart ==
    \E i, j \in 1..Len(positions) :
        /\ i # j
        /\ positions[i].employer_name = positions[j].employer_name
        /\ positions[i].start_date = positions[j].start_date

\* C25 as stated: the result of calculate_loyalty_tax, taken as a set of tenure
\* blocks together with cumulative_loyalty_tax, is the same for every
\* permutation of the input position list, including when two positions of one
\* employer share a start_date.
C25_AsStated == IsLoyalty => PermutationInvariant

\* C25: the result of calculate_loyalty_tax, taken as a set of tenure blocks
\* together with cumulative_loyalty_tax, is the same for every permutation of
\* the input position list in which no two positions of one employer share a
\* start_date.
C25_Amended == (IsLoyalty /\ ~SharedStart) => PermutationInvariant

\* one employer, the later-starting position listed first, a block with a
\* positive impact
C25_Witness ==
    /\ IsLoyalty
    /\ Len(positions) = 2
    /\ positions[1].employer_name = positions[2].employer_name
    /\ DayNumber(positions[1].start_date) > DayNumber(positions[2].start_date)
    /\ positions[1].seniority_level # positions[2].seniority_level
    /\ Len(report.tenure_blocks) = 1
    /\ RGt(report.cumulative_loyalty_tax, Whole(0))

\* two positions of one employer that start on the same day: swapping them
\* changes the block
C25_TieDependsOnOrder ==
    /\ IsLoyalty
    /\ SharedStart
    /\ ~PermutationInvariant

(***************************************************************************)
(* Properties of export_all_data, clear_all_data and import_all_data       *)
(***************************************************************************)
\* import_all_data of the kept DataExport is about to return on thread t
Restored(t) == backup.phase = "imported" /\ At(t, "import_all_data", "return")

\* C26: round trip: on any store state, export_all_data followed by
\* clear_all_data followed by import_all_data of the exported data restores
\* the store, i.e. get_positions and get_user_profile return the same positions
\* and profile as before the clear, and ImportResult.positions_count and
\* profile_imported match what is actually stored afterwards.
C26_AsStated ==
    \A t \in Threads :
        Restored(t) =>
            /\ backup.data.positions \in get_positions(store)
            /\ get_user_profile(store) = backup.data.user_profile
            /\ calls[t].result.positions_count = Cardinality(store.positions)
            /\ calls[t].result.profile_imported = (store.user_profile # {})

\* the round trip of a store that holds nothing restores it
C26_EmptyStore ==
    \A t \in Threads :
        (Restored(t) /\ backup.data.positions = <<>> /\ ~backup.data.user_profile.some) =>
            /\ store.positions = {}
            /\ store.user_profile = {}
            /\ calls[t].result.positions_count = 0
            /\ ~calls[t].result.profile_imported

\* what the round trip of a store that holds rows leaves: empty tables and
\* an ImportResult that counts every exported row
C26_NothingRestored ==
    \A t \in Threads :
        Restored(t) =>
            /\ store.positions = {}
            /\ store.user_profile = {}
            /\ calls[t].result.positions_count = Len(backup.data.positions)
            /\ calls[t].result.profile_imported = backup.data.user_profile.some

\* a DataExport of two positions and a profile has been imported
C26_Reached ==
    \E t \in Threads :
        /\ Restored(t)
        /\ Len(backup.data.positions) = 2
        /\ backup.data.user_profile.some

(***************************************************************************)
(* The resume's compensation summary against the earnings analysis         *)
(***************************************************************************)
RECURSIVE SumOfActual(_, _)
SumOfActual(snapshots, k) ==
    IF k = 0 THEN Whole(0)
    ELSE RAdd(SumOfActual(snapshots, k - 1), snapshots[k].actual_annual)

\* the totals of a resume export are those of an earnings analysis
SameTotals(resume, earnings) ==
    /\ resume.compensation_summary.current_total = earnings.current_total_compensation
    /\ resume.compensation_summary.career_earnings_total
           = SumOfActual(earnings.earnings_over_time, Len(earnings.earnings_over_time))

\* C27: for the same positions and profile, the resume
\* compensation_summary.current_total equals
\* EarningsAnalysis.current_total_compensation, and career_earnings_total
\* equals the sum of actual_annual over earnings_over_time (both reports apply
\* the same overtime multiplier to each position).
C27_AsStated ==
    /\ report.kind = "ResumeExport" =>
           SameTotals(report, calculate_earnings_analysis(positions, profile))
    /\ report.kind = "EarningsAnalysis" =>
           SameTotals(generate_resume_export(positions, profile), report)

\* the two reports agree when no profile is supplied
C27_NoProfile ==
    (report.kind \in {"ResumeExport", "EarningsAnalysis"} /\ ~profile.some) =>
        C27_AsStated

\* a resume export of two positions made with a profile
C27_Reached ==
    /\ report.kind = "ResumeExport"
    /\ Len(positions) = 2
    /\ profile.some
    /\ ~SameTotals(report, calculate_earnings_analysis(positions, profile))

(***************************************************************************)
(* Referential integrity of compensation_records                           *)
(***************************************************************************)
PositionIds(db) == {p.id : p \in db.positions}

\* every stored compensation record belongs to a stored position
C28_State ==
    \A r \in store.compensation_records : r.data.position_id \in PositionIds(store)

\* thread t makes the Database call of command op in this step
Calls(t, op) == At(t, op, "body") /\ calls'[t].pc = "return"

\* delete_position removes the position's records and no others; a new record
\* for a position that is not stored is refused and changes nothing, and one
\* for a stored position is stored under a new id
C28_Step ==
    \A t \in Threads :
        /\ Calls(t, "delete_position") =>
               store'.compensation_records =
                   {r \in store.compensation_records :
                       r.data.position_id \in PositionIds(store')}
        /\ (Calls(t, "save_compensation_record") /\ ~calls'[t].data[1].id.some) =>
               IF calls'[t].data[1].position_id \in PositionIds(store)
               THEN /\ calls'[t].result.kind = "Id"
                    /\ store'.compensation_records =
                           store.compensation_records
                               \cup {[id |-> calls'[t].result.value,
                                      data |-> Columns(calls'[t].data[1])]}
               ELSE /\ calls'[t].result.kind = "Err"
                    /\ store' = store

\* C28: referential integrity: after any sequence of save_position,
\* delete_position, save_compensation_record, delete_compensation_record and
\* clear_all_data operations, every stored compensation record's position_id
\* refers to a stored position; delete_position also removes that position's
\* compensation records, and saving a new record for a non-existent position
\* fails and leaves the store unchanged.
C28_Integrity == []C28_State /\ [][C28_Step]_vars

\* a new record for position 2 has been refused while position 1 and a record
\* of it are stored
C28_Witness ==
    \E t \in Threads :
        /\ At(t, "save_compensation_record", "return")
        /\ calls[t].result.kind = "Err"
        /\ ~calls[t].data[1].id.some
        /\ calls[t].data[1].position_id = 2
        /\ PositionIds(store) = {1}
        /\ store.compensation_records # {}

\* delete_position has emptied both tables: the records went with the position
C28_Cascaded ==
    \E t \in Threads :
        /\ At(t, "delete_position", "return")
        /\ store.sequence.positions = 1
        /\ store.sequence.compensation_records = 2
        /\ store.positions = {}
        /\ store.compensation_records = {}
        /\ \A u \in Threads \ {t} : calls[u].op # "delete_compensation_record"

(***************************************************************************)
(* The industry of the overtime adjustment against that of the median      *)
(***************************************************************************)
\* the industry whose adjustment the reported multiplier was made with
OvertimeIndustry ==
    LET base == Rat(BaseMultiplierTable[positions[1].seniority_level], 100)
        factor == RDiv(RDiv(report.value, base), PersonalAdjustment(profile))
    IN  IF factor = Rat(130, 100) THEN "mining"
        ELSE IF factor = Rat(125, 100) THEN "construction"
        ELSE IF factor = Rat(120, 100) THEN "engineering"
        ELSE IF factor = Rat(115, 100) THEN "it"
        ELSE "none"

\* the industry whose median the percentile of this profile is taken against
MedianIndustry ==
    LET median == calculate_industry_median(profile.value.industry)
    IN  IF median = Whole(125000) THEN "mining"
        ELSE IF median = Whole(95000) THEN "construction"
        ELSE IF median = Whole(105000) THEN "engineering"
        ELSE IF median = Whole(110000) THEN "it"
        ELSE "none"

\* how many of the four shared industries the profile's text names
KeywordsNamed ==
    Cardinality({k \in {1, 2, 3, 4} :
        \/ k = 1 /\ Mentions(kw_mining)
        \/ k = 2 /\ Mentions(kw_construction)
        \/ k = 3 /\ Mentions(kw_engineering)
        \/ k = 4 /\ (Mentions(kw_it) \/ Mentions(kw_technology))})

\* C29: the two industry lookups agree on how they classify an industry text:
\* for every industry string, the keyword that selects the overtime industry
\* adjustment (mining, construction, engineering, IT/technology, none) is the
\* same keyword that selects the industry median used for the percentile (e.g.
\* a text containing both 'engineering' and 'it' is treated as the same
\* industry by both).
C29_AsStated ==
    (report.kind = "overtime_multiplier" /\ profile.some) =>
        OvertimeIndustry = MedianIndustry

\* the lookups agree on a text that names at most one of the four industries
C29_OneKeyword ==
    (report.kind = "overtime_multiplier" /\ profile.some /\ KeywordsNamed <= 1) =>
        OvertimeIndustry = MedianIndustry

\* a text that names engineering and it: engineering to one lookup, it to the other
C29_Reached ==
    /\ report.kind = "overtime_multiplier"
    /\ profile.some
    /\ OvertimeIndustry = "engineering"
    /\ MedianIndustry = "it"

(***************************************************************************)
(* The span of a tenure block                                              *)
(***************************************************************************)
\* the day position i ends on, the cutoff for an open-ended position
EndDay(i) ==
    IF positions[i].end_date.some
    THEN DayNumber(positions[i].end_date.value)
    ELSE DayNumber(Date(2024, 12, 31))

\* every position starts no later than it ends
WellFormed == \A i \in 1..Len(positions) : DayNumber(positions[i].start_date) <= EndDay(i)

\* the block starts no later than it ends, on the earliest start_date of the
\* employer's positions
StartsFirst(b) ==
    /\ b.end_date.some
    /\ DayNumber(b.start_date) <= DayNumber(b.end_date.value)
    /\ \E i \in IndicesOf(b.employer_name) : positions[i].start_date = b.start_date
    /\ \A i \in IndicesOf(b.employer_name) :
           DayNumber(b.start_date) <= DayNumber(positions[i].start_date)

\* C30 as stated: for every emitted TenureBlock, given positions with
\* start_date <= end_date, start_date <= end_date holds, start_date is the
\* minimum start_date of the employer's positions, and the block's end_date is
\* >= the end_date-or-cutoff of every position of that employer.
C30_AsStated ==
    (IsLoyalty /\ WellFormed) =>
        \A k \in 1..Len(report.tenure_blocks) :
            LET b == report.tenure_blocks[k]
            IN  /\ StartsFirst(b)
                /\ \A i \in IndicesOf(b.employer_name) :
                       DayNumber(b.end_date.value) >= EndDay(i)

\* C30: for every emitted TenureBlock, given positions with start_date <=
\* end_date, start_date <= end_date holds, start_date is the minimum
\* start_date of the employer's positions, and the block's end_date is the
\* end_date-or-cutoff of the employer's latest-starting position, so it is >=
\* the end_date-or-cutoff of every position that does not end after that one.
C30_Amended ==
    (IsLoyalty /\ WellFormed) =>
        \A k \in 1..Len(report.tenure_blocks) :
            LET b == report.tenure_blocks[k]
                last == LastOf(b.employer_name)
            IN  /\ StartsFirst(b)
                /\ DayNumber(b.end_date.value) = EndDay(last)
                /\ \A i \in IndicesOf(b.employer_name) :
                       EndDay(i) <= EndDay(last) => DayNumber(b.end_date.value) >= EndDay(i)

\* an open-ended position and a later-starting one that has ended: the block
\* ends with the later-starting one, before the cutoff
C30_Witness ==
    /\ IsLoyalty
    /\ Len(positions) = 2
    /\ Len(report.tenure_blocks) = 1
    /\ ~positions[2].end_date.some
    /\ positions[1].end_date.some
    /\ DayNumber(positions[1].start_date) > DayNumber(positions[2].start_date)
    /\ report.tenure_blocks[1].start_date = positions[2].start_date
    /\ report.tenure_blocks[1].end_date = positions[1].end_date

\* positions held one after the other: the block spans them all
C30_Spanning ==
    /\ IsLoyalty
    /\ Len(positions) = 2
    /\ Len(report.tenure_blocks) = 1
    /\ positions[1].end_date.some
    /\ EndDay(1) <= DayNumber(positions[2].start_date)
    /\ DayNumber(report.tenure_blocks[1].start_date) = DayNumber(positions[1].start_date)
    /\ DayNumber(report.tenure_blocks[1].end_date.value) = EndDay(2)

====
